---- MODULE Spec2Model ----
(***************************************************************************)
(* Model of the Interswitch POS service wrapper (InterswitchPOSService)    *)
(* and of the payment forms that use it.                                   *)
(*                                                                         *)
(* JavaScript numbers are IEEE-754 doubles.  A finite non-zero double is   *)
(* modelled as a 53-bit mantissa (a sequence of bits, most significant     *)
(* first) and a binary exponent: value = mantissa * 2^e.  Decimal literals *)
(* are converted with round-to-nearest-even, products are rounded the same *)
(* way, so the arithmetic of validatePaymentAmount is the arithmetic the   *)
(* JavaScript engine performs.                                             *)
(***************************************************************************)
EXTENDS Integers, Sequences, FiniteSets, TLC

VARIABLES
    literal,       \* the expression whose value is handed to the validator
    amount,        \* argument of validatePaymentAmount (a JavaScript value)
    validation,    \* value returned by validatePaymentAmount, or NotCalled
    formData,      \* the payment form's fields
    formErrors,    \* newErrors computed by validateForm, or NotCalled
    formKind,      \* the payment form that ran validateForm
    listeners,     \* the service's four listener fields, by event name
    subscriptions, \* the subscriptions the event emitter holds
    removeCalls,   \* number of remove() calls on each subscription created
    registrations, \* number of addEventListeners calls so far
    lastCall,      \* the latest addEventListeners/removeEventListeners call
    delivered,     \* the latest native event, the handlers it invoked and
                   \* the listener call that preceded it
    payments,      \* number of makePayment calls so far
    paymentData,   \* argument of the latest makePayment call
    nativeCall,    \* the latest InterswitchPosModule.makePayment call
    payReturn,     \* value the latest makePayment call resolved with
    awaitingEvent, \* payments the terminal has started and not yet reported
    paymentResult, \* the PaymentResult handed to a receipt composer
    merchant,  \* the merchant argument of createStandardReceipt
    receipt,       \* what the latest receipt composer call did, or NotCalled
    operation,     \* the latest outbound operation called on the service
    opReturn,      \* what the promise of that call settled with
    mounted,       \* the payment screen is mounted
    terminalReady, \* the payment screen's terminalReady state
    loading,       \* the payment screen's loading state
    attempt,       \* the latest outcome of an operation the payment screen
                   \* started, and the notification shown for it
    inFlight,      \* the service calls the payment screen is awaiting
    loadingStandalone, \* the stand-alone payment screen's loading state
    clock,         \* Date.now(), in milliseconds
    generated      \* the transaction references generated so far, in order

valVars  == <<literal, amount, validation>>
formVars == <<formData, formErrors, formKind>>
svcVars  == <<listeners, subscriptions, removeCalls>>
lsnVars  == <<listeners, subscriptions, removeCalls, registrations, lastCall,
              delivered>>
payVars  == <<payments, paymentData, nativeCall, payReturn, awaitingEvent>>
rcptVars == <<paymentResult, merchant, receipt>>
opVars   == <<operation, opReturn>>
scrVars  == <<mounted, terminalReady, loading, attempt, inFlight,
              loadingStandalone>>
refVars  == <<clock, generated>>
appVars  == <<rcptVars, opVars, scrVars, refVars>>
vars     == <<literal, amount, validation, formData, formErrors, formKind,
              listeners, subscriptions, removeCalls, registrations, lastCall,
              delivered, payments, paymentData, nativeCall, payReturn,
              awaitingEvent, paymentResult, merchant, receipt,
              operation, opReturn, mounted, terminalReady, loading, attempt,
              inFlight, loadingStandalone, clock, generated>>

NotCalled == [t |-> "notcalled"]

(***************************************************************************)
(* Bounds of the model.                                                    *)
(***************************************************************************)
Window         == 30   \* amounts are taken within Window cents of 0, MIN and MAX
MaxExtraDigits == 1    \* decimal digits beyond the second
MaxExtra       == 5    \* largest value of the digits beyond the second
MaxUlps        == 1    \* doubles up to MaxUlps units in the last place away
FormWindow     == 2    \* amount strings within FormWindow cents of 0, MIN, MAX
MaxRegistrations == 2  \* addEventListeners calls in one behaviour
MaxPayments    == 1    \* makePayment calls in one behaviour
MaxClock       == 1    \* Date.now() ranges over 0..MaxClock
MaxReferences  == 2    \* references generated in one behaviour
MaxPresses     == 2    \* payments one behaviour of the screen's life starts

(***************************************************************************)
(* Arbitrary-size naturals as bit sequences, most significant bit first,   *)
(* without leading zeros (zero is the empty sequence).                     *)
(***************************************************************************)
RECURSIVE FromNat(_)
FromNat(n) ==
    IF n = 0 THEN <<>> ELSE Append(FromNat(n \div 2), n % 2)

RECURSIVE ToNat(_)
ToNat(b) ==
    IF b = <<>> THEN 0 ELSE 2 * ToNat(SubSeq(b, 1, Len(b) - 1)) + b[Len(b)]

Strip(b) ==
    \* b without its leading zeros
    IF \A i \in 1..Len(b) : b[i] = 0 THEN <<>>
    ELSE LET f == CHOOSE i \in 1..Len(b) :
                     b[i] = 1 /\ \A j \in 1..(i - 1) : b[j] = 0
         IN  SubSeq(b, f, Len(b))

Zeros(n) == [i \in 1..n |-> 0]

Pad(b, n) == Zeros(n - Len(b)) \o b   \* b on n bits

RECURSIVE MulAdd(_, _, _)
MulAdd(b, c, carry) ==
    \* b * c + carry for small c >= 1 and carry >= 0, eight bits at a time
    \* from the least significant end
    IF Len(b) <= 8 THEN FromNat(ToNat(b) * c + carry)
    ELSE LET d == ToNat(SubSeq(b, Len(b) - 7, Len(b))) * c + carry
         IN  MulAdd(SubSeq(b, 1, Len(b) - 8), c, d \div 256)
                 \o Pad(FromNat(d % 256), 8)

RECURSIVE DivPrefix(_, _, _)
DivPrefix(b, c, n) ==
    \* long division of the first n bits of b by the small divisor c, eight
    \* bits at a time: quotient (possibly with leading zeros) and remainder
    IF n <= 8
    THEN LET v == ToNat(SubSeq(b, 1, n))
         IN  [q |-> FromNat(v \div c), r |-> v % c]
    ELSE LET p   == DivPrefix(b, c, n - 8)
             cur == p.r * 256 + ToNat(SubSeq(b, n - 7, n))
         IN  [q |-> p.q \o Pad(FromNat(cur \div c), 8), r |-> cur % c]

DivRem(b, c) ==
    \* quotient and remainder of b by the small divisor c
    LET d == DivPrefix(b, c, Len(b))
    IN  [q |-> Strip(d.q), r |-> d.r]

RECURSIVE Pow10(_)
Pow10(k) == IF k = 0 THEN 1 ELSE 10 * Pow10(k - 1)

BitsLess(x, y) ==
    \* x < y for bit sequences without leading zeros
    \/ Len(x) < Len(y)
    \/ /\ Len(x) = Len(y)
       /\ \E i \in 1..Len(x) :
            /\ x[i] < y[i]
            /\ \A j \in 1..(i - 1) : x[j] = y[j]

(***************************************************************************)
(* IEEE-754 binary64.                                                      *)
(***************************************************************************)
Precision == 53
GuardBits == Precision + 11

Undefined == [t |-> "undefined"]
Null      == [t |-> "null"]
Str(s)    == [t |-> "string", s |-> s]
NaN       == [t |-> "number", cls |-> "nan",  neg |-> FALSE, m |-> <<>>, e |-> 0]
Zero(neg) == [t |-> "number", cls |-> "zero", neg |-> neg,   m |-> <<>>, e |-> 0]
Inf(neg)  == [t |-> "number", cls |-> "inf",  neg |-> neg,   m |-> <<>>, e |-> 0]
Fin(neg, m, e) == [t |-> "number", cls |-> "fin", neg |-> neg, m |-> m, e |-> e]

RoundToDouble(neg, b, e, sticky) ==
    \* the double nearest to b * 2^e (plus a positive amount smaller than
    \* 2^e when sticky), ties to even; b is not zero
    LET L == Len(b) IN
    IF L <= Precision
    THEN Fin(neg, b \o Zeros(Precision - L), e - (Precision - L))
    ELSE LET top   == SubSeq(b, 1, Precision)
             guard == b[Precision + 1]
             rest  == sticky \/ \E i \in (Precision + 2)..L : b[i] = 1
             up    == guard = 1 /\ (rest \/ top[Precision] = 1)
             mm    == IF up THEN MulAdd(top, 1, 1) ELSE top
         IN  IF Len(mm) > Precision
             THEN Fin(neg, SubSeq(mm, 1, Precision), e + (L - Precision) + 1)
             ELSE Fin(neg, mm, e + (L - Precision))

ToDouble(neg, n, den) ==
    \* the double a decimal literal with numerator n (bits) and denominator
    \* den (a power of ten) denotes
    IF n = <<>> THEN Zero(neg)
    ELSE LET d == DivRem(n \o Zeros(GuardBits), den)
         IN  RoundToDouble(neg, d.q, -GuardBits, d.r # 0)

NextUp(x) ==
    \* the next double of larger magnitude (finite non-zero x)
    LET mm == MulAdd(x.m, 1, 1)
    IN  IF Len(mm) > Precision
        THEN Fin(x.neg, SubSeq(mm, 1, Precision), x.e + 1)
        ELSE Fin(x.neg, mm, x.e)

NextDown(x) ==
    \* the next double of smaller magnitude (finite non-zero x)
    IF \A i \in 2..Precision : x.m[i] = 0
    THEN Fin(x.neg, [i \in 1..Precision |-> 1], x.e - 1)
    ELSE LET j == CHOOSE k \in 1..Precision :
                     x.m[k] = 1 /\ \A i \in (k + 1)..Precision : x.m[i] = 0
         IN  Fin(x.neg,
                 [i \in 1..Precision |->
                     IF i < j THEN x.m[i] ELSE IF i = j THEN 0 ELSE 1],
                 x.e)

RECURSIVE Ulps(_, _)
Ulps(x, j) ==
    IF j = 0 \/ x.cls # "fin" THEN x
    ELSE IF j > 0 THEN Ulps(NextUp(x), j - 1)
    ELSE Ulps(NextDown(x), j + 1)

MagLess(x, y) ==
    \* |x| < |y| for numbers that are not NaN
    CASE x.cls = "inf"  -> FALSE
      [] y.cls = "inf"  -> TRUE
      [] y.cls = "zero" -> FALSE
      [] x.cls = "zero" -> TRUE
      [] OTHER          -> x.e < y.e \/ (x.e = y.e /\ BitsLess(x.m, y.m))

NumLess(x, y) ==
    \* the JavaScript x < y on numbers
    IF x.cls = "nan" \/ y.cls = "nan" THEN FALSE
    ELSE IF x.cls = "zero" /\ y.cls = "zero" THEN FALSE
    ELSE IF x.neg /\ ~y.neg THEN TRUE
    ELSE IF ~x.neg /\ y.neg THEN FALSE
    ELSE IF x.neg THEN MagLess(y, x)
    ELSE MagLess(x, y)

NumEq(x, y) ==
    \* the JavaScript x === y on numbers
    /\ x.cls # "nan" /\ y.cls # "nan"
    /\ \/ x.cls = "zero" /\ y.cls = "zero"
       \/ x = y

NumLeq(x, y) == NumLess(x, y) \/ NumEq(x, y)

Times(x, c) ==
    \* x * c for a small positive integer c
    IF x.cls = "fin" THEN RoundToDouble(x.neg, MulAdd(x.m, c, 0), x.e, FALSE)
    ELSE x

MathRound(x) ==
    \* Math.round: nearest integer, ties towards +Infinity
    IF x.cls # "fin" \/ x.e >= 0 THEN x
    ELSE LET ib   == Precision + x.e      \* number of integer bits
             int  == IF ib > 0 THEN SubSeq(x.m, 1, ib) ELSE <<>>
             half == ib >= 0 /\ x.m[ib + 1] = 1
             tie  == half /\ \A i \in (ib + 2)..Precision : x.m[i] = 0
             r    == IF x.neg
                     THEN IF half /\ ~tie THEN MulAdd(int, 1, 1) ELSE int
                     ELSE IF half THEN MulAdd(int, 1, 1) ELSE int
         IN  IF r = <<>> THEN Zero(x.neg)
             ELSE RoundToDouble(x.neg, r, 0, FALSE)

Truthy(v) ==
    CASE v.t = "undefined" -> FALSE
      [] v.t = "null"      -> FALSE
      [] v.t = "string"    -> v.s # ""
      [] v.t = "number"    -> v.cls \notin {"nan", "zero"}
      [] OTHER             -> TRUE

(***************************************************************************)
(* The validator.                                                          *)
(***************************************************************************)
MinCents == 1000       \* the minimum, 10, in cents
MaxCents == 99999999   \* the maximum, 999999.99, in cents

Ten        == ToDouble(FALSE, FromNat(10), 1)
MaxAmount  == ToDouble(FALSE, FromNat(MaxCents), 100)

\* the messages of the validator (the naira sign is written N)
ErrNumber   == "Amount must be a valid number"
ErrPositive == "Amount must be greater than zero"
ErrMinimum  == "Minimum amount is N10"
ErrMaximum  == "Amount exceeds maximum limit (N999,999.99)"
ErrDecimals == "Amount cannot have more than 2 decimal places"

Valid       == [valid |-> TRUE,  error |-> Undefined]
Invalid(s)  == [valid |-> FALSE, error |-> Str(s)]

validatePaymentAmount_typeofOnly(a) ==
    \* the validator without the falsy test of its first check
    IF a.t # "number" THEN Invalid(ErrNumber)
    ELSE IF NumLeq(a, Zero(FALSE)) THEN Invalid(ErrPositive)
    ELSE IF NumLess(a, Ten) THEN Invalid(ErrMinimum)
    ELSE IF NumLess(MaxAmount, a) THEN Invalid(ErrMaximum)
    ELSE IF ~NumEq(MathRound(Times(a, 100)), Times(a, 100))
         THEN Invalid(ErrDecimals)
    ELSE Valid

validatePaymentAmount_formBound(a) ==
    \* the validator with the upper bound of the stand-alone form, 1,000,000
    IF ~Truthy(a) \/ a.t # "number" THEN Invalid(ErrNumber)
    ELSE IF NumLeq(a, Zero(FALSE)) THEN Invalid(ErrPositive)
    ELSE IF NumLess(a, Ten) THEN Invalid(ErrMinimum)
    ELSE IF NumLess(ToDouble(FALSE, FromNat(1000000), 1), a)
         THEN Invalid(ErrMaximum)
    ELSE IF ~NumEq(MathRound(Times(a, 100)), Times(a, 100))
         THEN Invalid(ErrDecimals)
    ELSE Valid

validatePaymentAmount(a) ==
    IF ~Truthy(a) \/ a.t # "number" THEN Invalid(ErrNumber)
    ELSE IF NumLeq(a, Zero(FALSE)) THEN Invalid(ErrPositive)
    ELSE IF NumLess(a, Ten) THEN Invalid(ErrMinimum)
    ELSE IF NumLess(MaxAmount, a) THEN Invalid(ErrMaximum)
    ELSE IF ~NumEq(MathRound(Times(a, 100)), Times(a, 100))
         THEN Invalid(ErrDecimals)
    ELSE Valid

(***************************************************************************)
(* Inputs.  A literal is a decimal numeral cents/100 + extra/(100*10^digits)*)
(* possibly negated, moved by ulps units in the last place, or one of the  *)
(* values that are not finite numbers.                                     *)
(***************************************************************************)
Lit(kind, neg, cents, extra, digits, ulps) ==
    [kind |-> kind, neg |-> neg, cents |-> cents, extra |-> extra,
     digits |-> digits, ulps |-> ulps]

Other(kind) == Lit(kind, FALSE, 0, 0, 0, 0)

Extras(maxDigits, maxExtra) ==
    {<<0, 0>>} \cup
    {p \in (1..maxExtra) \X (1..maxDigits) : p[1] < Pow10(p[2]) /\ p[1] % 10 # 0}

CentsNear(w) ==
    (0..w) \cup ((MinCents - w)..(MinCents + w))
           \cup ((MaxCents - w)..(MaxCents + w))

Decimals(w, maxUlps) ==
    {l \in {Lit("decimal", n, c, p[1], p[2], u) :
                n \in BOOLEAN, c \in CentsNear(w),
                p \in Extras(MaxExtraDigits, MaxExtra),
                u \in (-maxUlps)..maxUlps} :
        (l.cents = 0 /\ l.extra = 0) => l.ulps = 0}

Literals ==
    Decimals(Window, MaxUlps) \cup
    {Other(k) : k \in {"undefined", "null", "empty", "text", "nan",
                       "inf", "neginf"}}

ParseDecimal(l) ==
    \* the double nearest to the numeral (the engine's string-to-number and
    \* numeric-literal conversion)
    ToDouble(l.neg, MulAdd(FromNat(l.cents), Pow10(l.digits), l.extra),
             100 * Pow10(l.digits))

Eval(l) ==
    CASE l.kind = "undefined" -> Undefined
      [] l.kind = "null"      -> Null
      [] l.kind = "empty"     -> Str("")
      [] l.kind = "text"      -> Str("abc")
      [] l.kind = "nan"       -> NaN
      [] l.kind = "inf"       -> Inf(FALSE)
      [] l.kind = "neginf"    -> Inf(TRUE)
      [] OTHER                -> Ulps(ParseDecimal(l), l.ulps)

(***************************************************************************)
(* The event listeners of the service.  A subscription is identified by    *)
(* the event it listens to and the registration (addEventListeners call)   *)
(* whose callback it wraps.                                                *)
(***************************************************************************)
EventTypes ==
    {"onPaymentCompleted", "onPaymentCancelled", "onPrintCompleted",
     "onPrintError"}

Subscription(e, r) == [t |-> "subscription", event |-> e, reg |-> r]

Service == [listeners |-> listeners, subscriptions |-> subscriptions,
            removeCalls |-> removeCalls]

RemoveListener_keepField(s, e) ==
    \* remove() is called but the field is not reset to null
    IF s.listeners[e] # Null
    THEN [listeners     |-> s.listeners,
          subscriptions |-> s.subscriptions \ {s.listeners[e]},
          removeCalls   |-> [s.removeCalls EXCEPT ![s.listeners[e]] = @ + 1]]
    ELSE s

RemoveListener(s, e) ==
    \* if (this.<e>Listener) { this.<e>Listener.remove(); ... = null; }
    IF s.listeners[e] # Null
    THEN [listeners     |-> [s.listeners EXCEPT ![e] = Null],
          subscriptions |-> s.subscriptions \ {s.listeners[e]},
          removeCalls   |-> [s.removeCalls EXCEPT ![s.listeners[e]] = @ + 1]]
    ELSE s

removeEventListeners_skipPrintError(s) ==
    \* the teardown without its last block
    RemoveListener(
        RemoveListener(
            RemoveListener(s, "onPaymentCompleted"),
            "onPaymentCancelled"),
        "onPrintCompleted")

removeEventListeners(s) ==
    RemoveListener(
        RemoveListener(
            RemoveListener(
                RemoveListener(s, "onPaymentCompleted"),
                "onPaymentCancelled"),
            "onPrintCompleted"),
        "onPrintError")

AddListener(s, cb, e, r) ==
    \* if (callbacks.<e>) { this.<e>Listener = eventEmitter.addListener(e, ..) }
    IF e \in cb
    THEN LET sub == Subscription(e, r)
         IN  [listeners     |-> [s.listeners EXCEPT ![e] = sub],
              subscriptions |-> s.subscriptions \cup {sub},
              removeCalls   |-> [x \in DOMAIN s.removeCalls \cup {sub} |->
                                    IF x \in DOMAIN s.removeCalls
                                    THEN s.removeCalls[x] ELSE 0]]
    ELSE s

AddAll(s, cb, r) ==
    AddListener(
        AddListener(
            AddListener(
                AddListener(s, cb, "onPaymentCompleted", r),
                cb, "onPaymentCancelled", r),
            cb, "onPrintCompleted", r),
        cb, "onPrintError", r)

addEventListeners_noTeardown(s, cb, r) ==
    \* the registration without the leading removeEventListeners()
    AddAll(s, cb, r)

addEventListeners(s, cb, r) ==
    AddAll(removeEventListeners(s), cb, r)

NoCall  == [op |-> "none", cb |-> {}]
NoEvent == [event |-> "none", payload |-> Undefined, handlers |-> {},
            after |-> NoCall, regs |-> 0]

PaymentResults ==
    {[status |-> "completed", isSuccessful |-> ok] : ok \in BOOLEAN}

Payloads(e) ==
    CASE e = "onPaymentCompleted" -> PaymentResults
      [] e = "onPaymentCancelled" -> {[status |-> "cancelled",
                                       isSuccessful |-> FALSE]}
      [] e = "onPrintCompleted"   -> {[status |-> "printed",
                                       isSuccessful |-> TRUE]}
      [] OTHER                    -> {[status |-> "printError",
                                       isSuccessful |-> FALSE]}

ListenersIdle ==
    /\ listeners = [e \in EventTypes |-> Null]
    /\ subscriptions = {}
    /\ removeCalls = << >>
    /\ registrations = 0
    /\ lastCall = NoCall
    /\ delivered = NoEvent

AddEventListeners(cb) ==
    /\ registrations < MaxRegistrations
    /\ LET s == addEventListeners(Service, cb, registrations + 1)
       IN  /\ listeners' = s.listeners
           /\ subscriptions' = s.subscriptions
           /\ removeCalls' = s.removeCalls
    /\ registrations' = registrations + 1
    /\ lastCall' = [op |-> "addEventListeners", cb |-> cb]
    /\ UNCHANGED <<delivered, valVars, formVars, payVars, appVars>>

RemoveEventListeners_firstConsumerOnly ==
    \* a teardown that leaves what a later consumer registered
    /\ LET s == IF \A x \in subscriptions : x.reg <= 1
                THEN removeEventListeners(Service) ELSE Service
       IN  /\ listeners' = s.listeners
           /\ subscriptions' = s.subscriptions
           /\ removeCalls' = s.removeCalls
    /\ lastCall' = [op |-> "removeEventListeners", cb |-> {}]
    /\ UNCHANGED <<registrations, delivered, valVars, formVars, payVars,
                   appVars>>

RemoveEventListeners ==
    /\ LET s == removeEventListeners(Service)
       IN  /\ listeners' = s.listeners
           /\ subscriptions' = s.subscriptions
           /\ removeCalls' = s.removeCalls
    /\ lastCall' = [op |-> "removeEventListeners", cb |-> {}]
    /\ UNCHANGED <<registrations, delivered, valVars, formVars, payVars,
                   appVars>>

Deliver(e, p) ==
    \* the emitter invokes the handler of every subscription to e it holds
    /\ delivered' = [event |-> e, payload |-> p,
                     handlers |-> {x \in subscriptions : x.event = e},
                     after |-> lastCall, regs |-> registrations]
    /\ UNCHANGED <<svcVars, registrations, lastCall, valVars, formVars>>

Emit(e, p) ==
    \* the native module emits event e
    /\ Deliver(e, p)
    /\ UNCHANGED <<payVars, appVars>>

(***************************************************************************)
(* makePayment.  The call runs up to the await of the native call in one   *)
(* step (or returns at once when a check throws) and resumes when the      *)
(* native promise settles.                                                 *)
(***************************************************************************)
PayLiterals ==
    {Other("undefined"),
     Lit("decimal", FALSE, 0, 0, 0, 0),
     Lit("decimal", TRUE, 500, 0, 0, 0),
     Lit("decimal", FALSE, 999, 0, 0, 0),
     Lit("decimal", FALSE, 50000, 0, 0, 0),
     Lit("decimal", FALSE, 1000, 5, 1, 0),
     Lit("decimal", FALSE, MaxCents + 1, 0, 0, 0)}

PayAmounts == {Eval(l) : l \in PayLiterals}

PaymentTypes == {Undefined, Str("QR")}
References   == {Undefined, Str(""), Str("REF-001")}
Remarks      == {Undefined, Str("Payment for John Doe")}
RandomNums   == {0, 999999}         \* Math.floor(Math.random() * 1000000)

PaymentDatas ==
    [amount : PayAmounts, paymentType : PaymentTypes, reference : References,
     remark : Remarks]

InitiationAmounts ==
    \* amounts of every kind the type of paymentData.amount does not rule out
    \* at run time
    PayAmounts \cup {Null, NaN, Str("abc")}

InitiationDatas ==
    [amount : InitiationAmounts, paymentType : PaymentTypes \cup {Str("")},
     reference : References, remark : Remarks \cup {Str("")}]

Validated == [a \in InitiationAmounts |-> validatePaymentAmount(a)]

ToNumber(v) ==
    \* the number a relational operator takes v for (no string of the model
    \* other than the empty one is a numeral)
    CASE v.t = "number"                -> v
      [] v.t = "null"                  -> Zero(FALSE)
      [] v.t = "string" /\ v.s = ""    -> Zero(FALSE)
      [] OTHER                         -> NaN

MathFloor(x) ==
    \* Math.floor: the largest integer that is not above x
    IF x.cls # "fin" \/ x.e >= 0 THEN x
    ELSE LET ib   == Precision + x.e      \* number of integer bits
             int  == IF ib > 0 THEN SubSeq(x.m, 1, ib) ELSE <<>>
             frac == \E i \in (IF ib > 0 THEN ib + 1 ELSE 1)..Precision :
                        x.m[i] = 1
             r    == IF x.neg /\ frac THEN MulAdd(int, 1, 1) ELSE int
         IN  IF r = <<>> THEN Zero(x.neg)
             ELSE RoundToDouble(x.neg, r, 0, FALSE)

IntegerOf(x) ==
    \* the natural number an integer-valued double that is not negative holds
    IF x.cls = "zero" THEN 0 ELSE ToNat(SubSeq(x.m, 1, Precision + x.e))

MathRandoms ==
    \* Math.random(): a double in [0, 1)
    {Zero(FALSE),
     Fin(FALSE, <<1>> \o Zeros(Precision - 1), -2 * Precision + 1),
     ToDouble(FALSE, FromNat(5), 10),
     ToDouble(FALSE, FromNat(999999), 1000000),
     Fin(FALSE, [i \in 1..Precision |-> 1], -Precision)}

randomNumber_rounded(x) ==
    \* Math.round in the place of Math.floor
    IntegerOf(MathRound(Times(x, 1000000)))

randomNumber(x) ==
    \* Math.floor(x * 1000000) for the x Math.random() returned
    IntegerOf(MathFloor(Times(x, 1000000)))

generateTransactionReference(timestamp, randomNum) ==
    \* `TXN_${timestamp}_${randomNum}`
    Str("TXN_" \o ToString(timestamp) \o "_" \o ToString(randomNum))

OrElse(v, d) == IF Truthy(v) THEN v ELSE d      \* v || d

Failure(msg, fallback) ==
    \* { success: false, error: error.message || fallback }
    [success |-> FALSE, data |-> Undefined, error |-> OrElse(msg, Str(fallback))]

makePaymentCheck_requiredOnly(d) ==
    \* without the call of validatePaymentAmount
    IF ~Truthy(d.amount) \/ NumLeq(ToNumber(d.amount), Zero(FALSE))
    THEN Str("Valid amount is required")
    ELSE Undefined

makePaymentCheck(d) ==
    \* the error thrown before the native call, or Undefined
    IF ~Truthy(d.amount) \/ NumLeq(ToNumber(d.amount), Zero(FALSE))
    THEN Str("Valid amount is required")
    ELSE IF ~Validated[d.amount].valid THEN Validated[d.amount].error
    ELSE Undefined

paymentInfo_alwaysGenerated(d, timestamp, randomNum) ==
    \* a reference of its own in the place of the caller's
    [amount      |-> d.amount,
     paymentType |-> OrElse(d.paymentType, Str("Card")),
     reference   |-> generateTransactionReference(timestamp, randomNum),
     remark      |-> OrElse(d.remark, Str("Payment transaction"))]

paymentInfo(d, timestamp, randomNum) ==
    [amount      |-> d.amount,
     paymentType |-> OrElse(d.paymentType, Str("Card")),
     reference   |-> OrElse(d.reference,
                            generateTransactionReference(timestamp, randomNum)),
     remark      |-> OrElse(d.remark, Str("Payment transaction"))]

NativeOutcomes ==
    \* what the promise of InterswitchPosModule.makePayment settles with
    {[kind |-> "resolved", value |-> v, message |-> Undefined] :
        v \in {Undefined, [t |-> "object", success |-> TRUE]} \cup PaymentResults}
    \cup
    {[kind |-> "rejected", value |-> Undefined, message |-> m] :
        m \in {Undefined, Str("Terminal not initialized")}}

makePaymentSettled_withData(o) ==
    \* the native result handed back as data, as printReceipt does
    IF o.kind = "resolved"
    THEN [success |-> TRUE, data |-> o.value, error |-> Undefined]
    ELSE Failure(o.message, "Failed to initiate payment")

makePaymentSettled(o) ==
    \* the value makePayment resolves with once the native promise settled
    IF o.kind = "resolved"
    THEN [success |-> TRUE, data |-> Undefined, error |-> Undefined]
    ELSE Failure(o.message, "Failed to initiate payment")

NoNativeCall == [state |-> "none", info |-> Undefined, outcome |-> Undefined]
Pending      == [t |-> "pending"]

PaymentIdle ==
    /\ payments = 0
    /\ paymentData = Undefined
    /\ nativeCall = NoNativeCall
    /\ payReturn = NotCalled
    /\ awaitingEvent = 0

MakePaymentThrows(d) ==
    \* makePayment(d) when one of its checks throws: the catch block returns
    /\ payments < MaxPayments
    /\ payReturn # Pending
    /\ makePaymentCheck(d) # Undefined
    /\ payments' = payments + 1
    /\ paymentData' = d
    /\ nativeCall' = NoNativeCall
    /\ payReturn' = Failure(makePaymentCheck(d), "Failed to initiate payment")
    /\ UNCHANGED <<awaitingEvent, valVars, formVars, lsnVars, appVars>>

MakePaymentCallsNative(d, timestamp, randomNum) ==
    \* makePayment(d) up to the await of InterswitchPosModule.makePayment
    /\ payments < MaxPayments
    /\ payReturn # Pending
    /\ makePaymentCheck(d) = Undefined
    /\ Truthy(d.reference) => (timestamp = 0 /\ randomNum = 0)
    /\ payments' = payments + 1
    /\ paymentData' = d
    /\ nativeCall' = [state |-> "pending",
                      info |-> paymentInfo(d, timestamp, randomNum),
                      outcome |-> Undefined]
    /\ payReturn' = Pending
    /\ UNCHANGED <<awaitingEvent, valVars, formVars, lsnVars, appVars>>

MakePaymentSettles(o) ==
    \* the native promise settles and makePayment returns
    /\ payReturn = Pending
    /\ nativeCall' = [nativeCall EXCEPT !.state = o.kind, !.outcome = o]
    /\ payReturn' = makePaymentSettled(o)
    /\ awaitingEvent' = IF o.kind = "resolved" THEN awaitingEvent + 1
                        ELSE awaitingEvent
    /\ UNCHANGED <<payments, paymentData, valVars, formVars, lsnVars,
                   appVars>>

PaymentOutcome(e, p) ==
    \* the terminal reports the outcome of a payment it had started
    /\ awaitingEvent > 0
    /\ Deliver(e, p)
    /\ awaitingEvent' = awaitingEvent - 1
    /\ UNCHANGED <<payments, paymentData, nativeCall, payReturn, appVars>>

(***************************************************************************)
(* The parts of the application that have not run yet.                     *)
(***************************************************************************)
NoOperation == [name |-> "none", arg |-> Undefined, outcome |-> Undefined]
NoAttempt   == [op |-> "none", failed |-> FALSE, toast |-> "none"]

ReceiptIdle ==
    /\ paymentResult = Undefined
    /\ merchant = Undefined
    /\ receipt = NotCalled

OperationIdle ==
    /\ operation = NoOperation
    /\ opReturn = NotCalled

ScreenIdle ==
    /\ mounted = FALSE
    /\ terminalReady = FALSE
    /\ loading = FALSE
    /\ attempt = NoAttempt
    /\ inFlight = {}
    /\ loadingStandalone = FALSE

ReferenceIdle ==
    /\ clock = 0
    /\ generated = <<>>

AppIdle == ReceiptIdle /\ OperationIdle /\ ScreenIdle /\ ReferenceIdle

(***************************************************************************)
(* Specification of the validator: an argument is chosen, then validated.  *)
(***************************************************************************)
FormIdle ==
    /\ formData = [customerName |-> "", customerEmail |-> "",
                   customerMobile |-> "", amount |-> Other("empty")]
    /\ formErrors = NotCalled
    /\ formKind = "none"

ValidateInit ==
    /\ literal \in Literals
    /\ amount = Eval(literal)
    /\ validation = NotCalled
    /\ FormIdle
    /\ ListenersIdle
    /\ PaymentIdle
    /\ AppIdle

ValidatePaymentAmount ==
    /\ validation = NotCalled
    /\ validation' = validatePaymentAmount(amount)
    /\ UNCHANGED <<literal, amount, formVars, lsnVars, payVars, appVars>>

ValidateNext == ValidatePaymentAmount

SpecValidate == ValidateInit /\ [][ValidateNext]_vars

(***************************************************************************)
(* Properties of the validator.  The literal tells what amount was meant;  *)
(* these predicates order it against a number of cents exactly.            *)
(***************************************************************************)
IsDecimal(l)    == l.kind = "decimal"
LitIsZero(l)    == l.cents = 0 /\ l.extra = 0
LitBelow(l, c)  ==      \* the literal's value is below c cents (c > 0)
    \/ l.neg
    \/ l.cents < c
    \/ l.cents = c /\ l.extra = 0 /\ l.ulps < 0 /\ c > 0
LitAbove(l, c)  ==      \* the literal's value is above c cents (c > 0)
    /\ ~l.neg
    /\ \/ l.cents > c
       \/ l.cents = c /\ (l.extra > 0 \/ l.ulps > 0)
LitNonPositive(l) == l.neg \/ LitIsZero(l)
LitInRange(l)     == ~LitBelow(l, MinCents) /\ ~LitAbove(l, MaxCents)
TwoDecimals(l)    == l.extra = 0 /\ l.ulps = 0
Called            == validation # NotCalled

\* C1: every amount with two or fewer decimal digits and 10 <= a <= 999,999.99
\* (both end points included) is accepted by validatePaymentAmount.
C1_TwoDecimalsInRangeAccepted ==
    (Called /\ IsDecimal(literal) /\ TwoDecimals(literal) /\ LitInRange(literal))
        => validation.valid

\* C2 (as stated): every numeric amount below 10 is rejected with the
\* minimum-amount reason, every amount above 999,999.99 with the
\* maximum-amount reason.
C2_BelowMinimumAlwaysMinimumReason ==
    /\ (Called /\ (literal.kind = "neginf"
                   \/ (IsDecimal(literal) /\ LitBelow(literal, MinCents))))
           => validation = Invalid(ErrMinimum)
    /\ (Called /\ (literal.kind = "inf"
                   \/ (IsDecimal(literal) /\ LitAbove(literal, MaxCents))))
           => validation = Invalid(ErrMaximum)

\* C2 (amended): every amount a with 0 < a < 10 is rejected with the
\* minimum-amount reason, every amount above 999,999.99 with the
\* maximum-amount reason.
C2_PositiveBelowMinimumRejected ==
    /\ (Called /\ IsDecimal(literal) /\ ~LitNonPositive(literal)
               /\ LitBelow(literal, MinCents))
           => validation = Invalid(ErrMinimum)
    /\ (Called /\ (literal.kind = "inf"
                   \/ (IsDecimal(literal) /\ LitAbove(literal, MaxCents))))
           => validation = Invalid(ErrMaximum)

C2_Witness ==
    /\ literal \in {Lit("decimal", FALSE, 999, 0, 0, 0),
                     Lit("decimal", FALSE, MaxCents + 1, 0, 0, 0)}
    /\ Called /\ ~validation.valid

\* C3: every non-numeric or missing input (undefined, null, a string, NaN)
\* is rejected with the reason 'must be a valid number', as a returned value.
C3_NonNumericRejected ==
    (Called /\ literal.kind \in {"undefined", "null", "empty", "text", "nan"})
        => validation = Invalid(ErrNumber)

C3_Witness ==
    /\ literal.kind \in {"nan", "undefined"}
    /\ validation = Invalid(ErrNumber)

\* C4: every numeric amount a <= 0, zero included, is rejected with the
\* reason 'must be greater than zero'.
C4_NonPositiveRejected ==
    (Called /\ (literal.kind = "neginf"
               \/ (IsDecimal(literal) /\ LitNonPositive(literal))))
        => validation = Invalid(ErrPositive)

\* C5: every amount within [10, 999,999.99] with more than two decimal
\* digits is rejected with the reason 'too many decimal places'.
C5_MoreDecimalsRejected ==
    (Called /\ IsDecimal(literal) /\ ~TwoDecimals(literal) /\ LitInRange(literal))
        => validation = Invalid(ErrDecimals)

(***************************************************************************)
(* The payment forms.  The tabs screen (payment.tsx) validates the amount  *)
(* with the service's validator; the stand-alone screen has its own rules. *)
(* An amount string is a literal: empty, blank, a non-numeric text or a    *)
(* decimal numeral.                                                        *)
(***************************************************************************)
Names   == {"", " ", "John Doe"}
Emails  == {"", "john.doe", "john.doe@example.com"}
Mobiles == {"", "0812-345", "0812 345 6789"}

Trim(s)        == IF s = " " THEN "" ELSE s
EmailTest(s)   == s = "john.doe@example.com"       \* /\S+@\S+\.\S+/
DigitsOnly(s)  ==                                   \* replace(/\D/g, '')
    CASE s = "0812-345"      -> "0812345"
      [] s = "0812 345 6789" -> "08123456789"
      [] OTHER               -> s
MobileTest(s)  == s = "08123456789"                \* /^[0-9]{10,11}$/

AmountStrings ==
    {l \in Decimals(FormWindow, 0) : ~(l.neg /\ LitIsZero(l))}
        \cup {Other(k) : k \in {"empty", "blank", "text"}}

TrimIsEmpty(l) == l.kind \in {"empty", "blank"}

Number(l) ==
    \* Number(string)
    CASE l.kind \in {"empty", "blank"} -> Zero(FALSE)
      [] l.kind = "text"               -> NaN
      [] OTHER                         -> ParseDecimal(l)

NoError == Undefined

CommonErrors(f) ==
    \* the checks of the three customer fields, the same in both forms
    [customerName   |-> IF Trim(f.customerName) = ""
                        THEN Str("Customer name is required") ELSE NoError,
     customerEmail  |-> IF Trim(f.customerEmail) = ""
                        THEN Str("Email is required")
                        ELSE IF ~EmailTest(f.customerEmail)
                        THEN Str("Enter a valid email address") ELSE NoError,
     customerMobile |-> IF Trim(f.customerMobile) = ""
                        THEN Str("Phone number is required")
                        ELSE IF ~MobileTest(DigitsOnly(f.customerMobile))
                        THEN Str("Enter a valid phone number (10-11 digits)")
                        ELSE NoError]

AmountErrorTabs(f) ==
    IF TrimIsEmpty(f.amount) THEN Str("Amount is required")
    ELSE validatePaymentAmount(Number(f.amount)).error

AmountErrorStandalone(f) ==
    LET n == Number(f.amount) IN
    IF TrimIsEmpty(f.amount) THEN Str("Amount is required")
    ELSE IF n.cls = "nan" \/ NumLeq(n, Zero(FALSE))
         THEN Str("Enter a valid amount")
    ELSE IF NumLess(n, Ten) THEN Str("Minimum amount is N10")
    ELSE IF NumLess(ToDouble(FALSE, FromNat(1000000), 1), n)
         THEN Str("Maximum amount is N1,000,000")
    ELSE NoError

WithAmount(e, a) ==
    [customerName |-> e.customerName, customerEmail |-> e.customerEmail,
     customerMobile |-> e.customerMobile, amount |-> a]

FormAccepted == \* Object.keys(newErrors).length === 0
    /\ formErrors # NotCalled
    /\ \A k \in DOMAIN formErrors : formErrors[k] = NoError

ValidateIdle ==
    /\ literal = Other("undefined")
    /\ amount = Undefined
    /\ validation = NotCalled

FormInit ==
    /\ formData \in [customerName : Names, customerEmail : Emails,
                      customerMobile : Mobiles, amount : AmountStrings]
    /\ formErrors = NotCalled
    /\ formKind = "none"
    /\ ValidateIdle
    /\ ListenersIdle
    /\ PaymentIdle
    /\ AppIdle

validateForm ==
    \* PaymentScreen.validateForm of the tabs screen
    /\ formErrors = NotCalled
    /\ formErrors' = WithAmount(CommonErrors(formData), AmountErrorTabs(formData))
    /\ formKind' = "tabs"
    /\ UNCHANGED <<formData, valVars, lsnVars, payVars, appVars>>

validateFormStandalone ==
    \* PaymentScreen.validateForm of the stand-alone screen
    /\ formErrors = NotCalled
    /\ formErrors' = WithAmount(CommonErrors(formData),
                                AmountErrorStandalone(formData))
    /\ formKind' = "standalone"
    /\ UNCHANGED <<formData, valVars, lsnVars, payVars, appVars>>

FormNext == validateForm \/ validateFormStandalone

SpecForm == FormInit /\ [][FormNext]_vars

\* C6: the form-level amount check and validatePaymentAmount make the same
\* accept/reject decision for every amount string, in both payment forms.
C6_FormAndServiceAgree ==
    (formErrors # NotCalled)
        => ((formErrors.amount = NoError)
               <=> validatePaymentAmount(Number(formData.amount)).valid)

(***************************************************************************)
(* Specification of the listeners: any sequence of registrations and       *)
(* teardowns, with native events emitted at any time.                      *)
(***************************************************************************)
ListenersInit ==
    ValidateIdle /\ FormIdle /\ ListenersIdle /\ PaymentIdle /\ AppIdle

ListenersNext ==
    \/ \E cb \in SUBSET EventTypes : AddEventListeners(cb)
    \/ RemoveEventListeners
    \/ \E e \in EventTypes : \E p \in Payloads(e) : Emit(e, p)

SpecListeners == ListenersInit /\ [][ListenersNext]_vars

\* C7: the emitter holds at most one active subscription per event type, and
\* every active subscription is the one recorded in the service's listener
\* field for its event.
C7_OneSubscriptionPerEvent ==
    /\ \A x \in subscriptions : listeners[x.event] = x
    /\ \A e \in EventTypes :
          Cardinality({x \in subscriptions : x.event = e}) <= 1

C7_Witness ==
    /\ registrations = 2
    /\ lastCall.op = "addEventListeners"
    /\ Cardinality(subscriptions) = 4
    /\ Cardinality(DOMAIN removeCalls) = 8

\* C8: after addEventListeners(cb) an emitted event is delivered to cb's
\* handler for its type if cb supplies one and to no handler otherwise; a
\* handler of an earlier registration is never invoked again.
C8_RegistrationReplacesPrevious ==
    (delivered # NoEvent) =>
        /\ \A x \in delivered.handlers : x.reg = delivered.regs
        /\ (delivered.after.op = "addEventListeners") =>
              delivered.handlers =
                  IF delivered.event \in delivered.after.cb
                  THEN {Subscription(delivered.event, delivered.regs)}
                  ELSE {}

C8_Witness ==
    /\ delivered.regs = 2
    /\ delivered.after.op = "addEventListeners"
    /\ delivered.event = "onPaymentCompleted"
    /\ Subscription("onPaymentCompleted", 1) \in DOMAIN removeCalls
    /\ delivered.handlers = {Subscription("onPaymentCompleted", 2)}

\* C9: removeEventListeners is idempotent: with no listener registered it
\* changes nothing, twice in a row it leaves the state one call leaves, and
\* no subscription's remove() is invoked more than once.
C9_TeardownIdempotent ==
    /\ [](\A x \in DOMAIN removeCalls : removeCalls[x] <= 1)
    /\ [](removeEventListeners(removeEventListeners(Service))
             = removeEventListeners(Service))
    /\ [][(lastCall'.op = "removeEventListeners"
             /\ \A e \in EventTypes : listeners[e] = Null)
           => UNCHANGED svcVars]_vars

C9_Witness ==
    /\ lastCall.op = "removeEventListeners"
    /\ registrations > 0
    /\ subscriptions = {}
    /\ \E x \in DOMAIN removeCalls : removeCalls[x] = 1

(***************************************************************************)
(* Specification of payments: a caller registers all four callbacks (as   *)
(* the payment screen does), makes payments, and the terminal reports the  *)
(* outcome of each payment it started through an event.                    *)
(***************************************************************************)
PaymentInit ==
    ValidateIdle /\ FormIdle /\ ListenersIdle /\ PaymentIdle /\ AppIdle

PaymentNext ==
    \/ AddEventListeners(EventTypes)
    \/ RemoveEventListeners
    \/ \E d \in PaymentDatas : MakePaymentThrows(d)
    \/ \E d \in PaymentDatas : \E ts \in 0..MaxClock : \E r \in RandomNums :
          MakePaymentCallsNative(d, ts, r)
    \/ \E o \in NativeOutcomes : MakePaymentSettles(o)
    \/ \E e \in {"onPaymentCompleted", "onPaymentCancelled"} :
          \E p \in Payloads(e) : PaymentOutcome(e, p)

SpecPayment == PaymentInit /\ [][PaymentNext]_vars

\* C10: makePayment is fire-and-forget: when initiation succeeds it returns
\* {success: true} without PaymentResult data, whatever the native call
\* resolved to; no return value of makePayment carries result data, the
\* outcome is what a later onPaymentCompleted or onPaymentCancelled event
\* delivers.
C10_FireAndForget ==
    /\ (nativeCall.state = "resolved")
          => payReturn = [success |-> TRUE, data |-> Undefined,
                          error |-> Undefined]
    /\ (payReturn \notin {NotCalled, Pending})
          => payReturn.data = Undefined

C10_Witness ==
    /\ nativeCall.state = "resolved"
    /\ nativeCall.outcome.value \in PaymentResults
    /\ payReturn.success
    /\ delivered.event = "onPaymentCompleted"
    /\ delivered.handlers # {}

(***************************************************************************)
(* The receipt composers.  A PrintItem is a record that has exactly the    *)
(* properties the code gives the object; a receipt is a sequence of them.  *)
(* Texts are the strings the template literals produce (the naira sign is  *)
(* written N and the infinity sign oo).                                    *)
(***************************************************************************)
Template(v) ==
    \* `${v}` for a string, undefined or null
    CASE v.t = "string"    -> v.s
      [] v.t = "undefined" -> "undefined"
      [] OTHER             -> "null"

RoundHalfUp(b, k) ==
    \* the integer nearest to b / 2^k, the larger one of two
    IF k <= 0 THEN b \o Zeros(-k)
    ELSE IF k > Len(b) THEN <<>>
    ELSE LET int == Strip(SubSeq(b, 1, Len(b) - k))
         IN  IF b[Len(b) - k + 1] = 1 THEN MulAdd(int, 1, 1) ELSE int

Hundredths(x) ==
    \* the integer n for which n / 100 is nearest to |x| (finite non-zero x)
    ToNat(RoundHalfUp(MulAdd(x.m, 100, 0), -x.e))

TwoDigits(n) == IF n < 10 THEN "0" \o ToString(n) ELSE ToString(n)

ThreeDigits(n) == IF n < 100 THEN "0" \o TwoDigits(n) ELSE ToString(n)

RECURSIVE Grouped(_)
Grouped(n) ==
    \* the integer n with a comma between groups of three digits
    IF n < 1000 THEN ToString(n)
    ELSE Grouped(n \div 1000) \o "," \o ThreeDigits(n % 1000)

toFixed(x) ==
    \* x.toFixed(2) for a number x
    CASE x.cls = "nan"  -> "NaN"
      [] x.cls = "inf"  -> IF x.neg THEN "-Infinity" ELSE "Infinity"
      [] x.cls = "zero" -> "0.00"
      [] OTHER          ->
            LET n == Hundredths(x)
            IN  (IF x.neg THEN "-" ELSE "") \o ToString(n \div 100) \o "."
                    \o TwoDigits(n % 100)

formatCurrency(a) ==
    \* Intl.NumberFormat('en-NG', {style: 'currency', currency: 'NGN',
    \* minimumFractionDigits: 2}).format(a)
    IF a.t # "number" \/ a.cls = "nan" THEN "NNaN"
    ELSE IF a.cls = "inf" THEN (IF a.neg THEN "-" ELSE "") \o "Noo"
    ELSE IF a.cls = "zero" THEN (IF a.neg THEN "-" ELSE "") \o "N0.00"
    ELSE LET n == Hundredths(a)
         IN  (IF a.neg THEN "-" ELSE "") \o "N" \o Grouped(n \div 100) \o "."
                 \o TwoDigits(n % 100)

ImageItem(name) ==
    [type |-> "image", imageType |-> "resource", resourceName |-> name]

SeparatorItem == [type |-> "separator"]

NewlineItem == [type |-> "newline"]

TextItem(text) == [type |-> "text", text |-> text]

BoldItem(text) == [type |-> "text", text |-> text, isBold |-> TRUE]

CenterItem(text) == [type |-> "text", text |-> text, displayCenter |-> TRUE]

TitleItem(text) ==
    [type |-> "text", text |-> text, isTitle |-> TRUE, displayCenter |-> TRUE,
     isBold |-> TRUE]

PushIf(v, item) == IF Truthy(v) THEN <<item>> ELSE <<>>   \* if (v) push(item)

Prop(obj, p) == IF obj = Undefined THEN Undefined ELSE obj[p]     \* obj?.p

MerchantHeader_phoneAlways(merchantInfo) ==
    \* the merchant header with the phone line pushed unconditionally
    PushIf(Prop(merchantInfo, "name"),
           TitleItem(Template(Prop(merchantInfo, "name"))))
    \o PushIf(Prop(merchantInfo, "address"),
              CenterItem(Template(Prop(merchantInfo, "address"))))
    \o <<CenterItem("Tel: " \o Template(Prop(merchantInfo, "phone")))>>

MerchantHeader(merchantInfo) ==
    PushIf(Prop(merchantInfo, "name"),
           TitleItem(Template(Prop(merchantInfo, "name"))))
    \o PushIf(Prop(merchantInfo, "address"),
              CenterItem(Template(Prop(merchantInfo, "address"))))
    \o PushIf(Prop(merchantInfo, "phone"),
              CenterItem("Tel: " \o Template(Prop(merchantInfo, "phone"))))

TransactionHeader ==
    <<SeparatorItem, TitleItem("PAYMENT RECEIPT"), NewlineItem>>

TransactionDetails_referenceLast(transactionData) ==
    \* the details with the reference line pushed after the STAN line
    <<BoldItem("Amount: N" \o toFixed(transactionData.amount))>>
    \o PushIf(transactionData.cardType,
              TextItem("Card Type: " \o Template(transactionData.cardType)))
    \o PushIf(transactionData.cardPan,
              TextItem("PAN: " \o Template(transactionData.cardPan)))
    \o PushIf(transactionData.rrn,
              TextItem("RRN: " \o Template(transactionData.rrn)))
    \o PushIf(transactionData.dateTime,
              TextItem("Date: " \o Template(transactionData.dateTime)))
    \o PushIf(transactionData.authorizationCode,
              TextItem("Auth Code: "
                       \o Template(transactionData.authorizationCode)))
    \o PushIf(transactionData.stan,
              TextItem("STAN: " \o Template(transactionData.stan)))
    \o <<TextItem("Reference: "
                  \o Template(transactionData.transactionReference))>>

TransactionDetails(transactionData) ==
    <<BoldItem("Amount: N" \o toFixed(transactionData.amount))>>
    \o PushIf(transactionData.cardType,
              TextItem("Card Type: " \o Template(transactionData.cardType)))
    \o PushIf(transactionData.cardPan,
              TextItem("PAN: " \o Template(transactionData.cardPan)))
    \o PushIf(transactionData.rrn,
              TextItem("RRN: " \o Template(transactionData.rrn)))
    \o <<TextItem("Reference: "
                  \o Template(transactionData.transactionReference))>>
    \o PushIf(transactionData.dateTime,
              TextItem("Date: " \o Template(transactionData.dateTime)))
    \o PushIf(transactionData.authorizationCode,
              TextItem("Auth Code: "
                       \o Template(transactionData.authorizationCode)))
    \o PushIf(transactionData.stan,
              TextItem("STAN: " \o Template(transactionData.stan)))

TransactionStatus_swapped(transactionData) ==
    \* the status with the two texts exchanged
    <<SeparatorItem,
      TitleItem(IF transactionData.isSuccessful THEN "DECLINED"
                ELSE "APPROVED")>>

TransactionStatus(transactionData) ==
    <<SeparatorItem,
      TitleItem(IF transactionData.isSuccessful THEN "APPROVED"
                ELSE "DECLINED")>>

Footer_oneBlankLine ==
    \* the footer with a single blank line before the thank-you line
    <<NewlineItem,
      CenterItem("Thank you for your business!"),
      NewlineItem,
      CenterItem("Keep this receipt for your records")>>

Footer ==
    <<NewlineItem, NewlineItem,
      CenterItem("Thank you for your business!"),
      NewlineItem,
      CenterItem("Keep this receipt for your records")>>

Returned(kind, items) == [kind |-> kind, t |-> "returned", items |-> items]

Thrown(kind, error) == [kind |-> kind, t |-> "thrown", error |-> error]

createStandardReceipt_blankFields(transactionData, merchantInfo) ==
    \* the composer pushing a line for every field that is not undefined
    IF transactionData.amount.t # "number"
    THEN Thrown("standard", "TypeError")
    ELSE LET line(label, v) ==
                 IF v # Undefined THEN <<TextItem(label \o Template(v))>>
                 ELSE <<>>
         IN  Returned("standard",
                 <<ImageItem("logo")>>
                 \o MerchantHeader(merchantInfo)
                 \o TransactionHeader
                 \o <<BoldItem("Amount: N"
                               \o toFixed(transactionData.amount))>>
                 \o line("Card Type: ", transactionData.cardType)
                 \o line("PAN: ", transactionData.cardPan)
                 \o line("RRN: ", transactionData.rrn)
                 \o line("Reference: ", transactionData.transactionReference)
                 \o line("Date: ", transactionData.dateTime)
                 \o line("Auth Code: ", transactionData.authorizationCode)
                 \o line("STAN: ", transactionData.stan)
                 \o TransactionStatus(transactionData)
                 \o Footer)

createStandardReceipt(transactionData, merchantInfo) ==
    \* transactionData.amount.toFixed throws a TypeError unless amount is a
    \* number
    IF transactionData.amount.t # "number"
    THEN Thrown("standard", "TypeError")
    ELSE Returned("standard",
                  <<ImageItem("logo")>>
                  \o MerchantHeader(merchantInfo)
                  \o TransactionHeader
                  \o TransactionDetails(transactionData)
                  \o TransactionStatus(transactionData)
                  \o Footer)

createSimpleReceipt_noStatus(transactionData) ==
    \* the simple receipt with the status line left out of a declined one
    Returned("simple",
             <<TitleItem("PAYMENT RECEIPT"),
               SeparatorItem,
               BoldItem("Amount: " \o formatCurrency(transactionData.amount)),
               TextItem("Reference: "
                        \o Template(transactionData.transactionReference))>>
             \o (IF transactionData.isSuccessful
                 THEN <<[type |-> "text", text |-> "Status: APPROVED",
                         isBold |-> TRUE, displayCenter |-> TRUE]>>
                 ELSE <<>>)
             \o <<SeparatorItem, CenterItem("Thank you!")>>)

createSimpleReceipt(transactionData) ==
    Returned("simple",
             <<TitleItem("PAYMENT RECEIPT"),
               SeparatorItem,
               BoldItem("Amount: " \o formatCurrency(transactionData.amount)),
               TextItem("Reference: "
                        \o Template(transactionData.transactionReference)),
               [type |-> "text",
                text |-> "Status: " \o (IF transactionData.isSuccessful
                                        THEN "APPROVED" ELSE "DECLINED"),
                isBold |-> TRUE, displayCenter |-> TRUE],
               SeparatorItem,
               CenterItem("Thank you!")>>)

(***************************************************************************)
(* Specification of the receipt composers: a PaymentResult and a merchant  *)
(* argument are chosen, then one of the composers is called.  Only the     *)
(* properties of the PaymentResult that the composers read are kept.       *)
(***************************************************************************)
OptionalStrings(v) == {Undefined, Str(""), Str(v)}

ReceiptAmounts ==
    {Undefined, Eval(Lit("decimal", FALSE, 123450, 0, 0, 0))}

ReceiptResults ==
    {r \in [status               : {"completed", "cancelled"},
            isSuccessful         : BOOLEAN,
            transactionReference : {Str("REF-001")},
            amount               : ReceiptAmounts,
            cardType             : OptionalStrings("VISA"),
            cardPan              : OptionalStrings("506099******1234"),
            rrn                  : OptionalStrings("000012345678"),
            dateTime             : OptionalStrings("2024-01-15 10:30:00"),
            authorizationCode    : OptionalStrings("A1B2C3"),
            stan                 : OptionalStrings("000042")] :
        r.status = "cancelled" => ~r.isSuccessful}

MerchantInfos ==
    {Undefined}
    \cup [name    : OptionalStrings("Your Business Name"),
          address : OptionalStrings("123 Business Street, Lagos"),
          phone   : OptionalStrings("+234 123 456 7890")]

ReceiptInit ==
    /\ paymentResult \in ReceiptResults
    /\ merchant \in MerchantInfos
    /\ receipt = NotCalled
    /\ ValidateIdle /\ FormIdle /\ ListenersIdle /\ PaymentIdle
    /\ OperationIdle /\ ScreenIdle /\ ReferenceIdle

CreateStandardReceipt ==
    /\ receipt = NotCalled
    /\ receipt' = createStandardReceipt(paymentResult, merchant)
    /\ UNCHANGED <<paymentResult, merchant, valVars, refVars, formVars,
                   lsnVars, payVars, opVars, scrVars>>

CreateSimpleReceipt ==
    /\ receipt = NotCalled
    /\ receipt' = createSimpleReceipt(paymentResult)
    /\ UNCHANGED <<paymentResult, merchant, valVars, refVars, formVars,
                   lsnVars, payVars, opVars, scrVars>>

ReceiptNext == CreateStandardReceipt \/ CreateSimpleReceipt

SpecReceipt == ReceiptInit /\ [][ReceiptNext]_vars

StandardReturned ==
    receipt # NotCalled /\ receipt.kind = "standard" /\ receipt.t = "returned"

SimpleReturned ==
    receipt # NotCalled /\ receipt.kind = "simple" /\ receipt.t = "returned"

Populated(v) == v.t = "string" /\ v.s # ""

Shows(item, text) == item.type = "text" /\ item.text = text

Field(obj, p) == IF obj = Undefined THEN Undefined ELSE obj[p]

\* the lines of the receipt up to the status title, in the order of the
\* construction; "present" tells whether the line is expected at all
LineIs(line, item) ==
    CASE line = "logo"       -> item.type = "image"
      [] line = "name"       -> Shows(item, merchant.name.s)
      [] line = "address"    -> Shows(item, merchant.address.s)
      [] line = "phone"      -> Shows(item, "Tel: " \o merchant.phone.s)
      [] line = "separator"  -> item.type = "separator"
      [] line = "title"      -> Shows(item, "PAYMENT RECEIPT")
      [] line = "blank"      -> item.type = "newline"
      [] line = "amount"     -> Shows(item, "Amount: N1234.50")
      [] line = "cardType"   ->
            Shows(item, "Card Type: " \o paymentResult.cardType.s)
      [] line = "cardPan"    -> Shows(item, "PAN: " \o paymentResult.cardPan.s)
      [] line = "rrn"        -> Shows(item, "RRN: " \o paymentResult.rrn.s)
      [] line = "reference"  ->
            Shows(item, "Reference: "
                        \o paymentResult.transactionReference.s)
      [] line = "dateTime"   ->
            Shows(item, "Date: " \o paymentResult.dateTime.s)
      [] line = "authorizationCode" ->
            Shows(item, "Auth Code: " \o paymentResult.authorizationCode.s)
      [] line = "stan"       -> Shows(item, "STAN: " \o paymentResult.stan.s)
      [] line = "status"     ->
            Shows(item, "APPROVED") \/ Shows(item, "DECLINED")
      [] OTHER               -> FALSE

LinePresent(line) ==
    CASE line \in {"name", "address", "phone"} ->
            Populated(Field(merchant, line))
      [] line \in {"cardType", "cardPan", "rrn", "dateTime",
                   "authorizationCode", "stan"} ->
            Populated(paymentResult[line])
      [] OTHER -> TRUE

FixedOrder ==
    <<"logo", "name", "address", "phone", "separator", "title", "blank",
      "amount", "cardType", "cardPan", "rrn", "reference", "dateTime",
      "authorizationCode", "stan", "separator", "status">>

IsClosingLine(item) ==
    \/ item.type = "newline"
    \/ Shows(item, "Thank you for your business!")
    \/ Shows(item, "Keep this receipt for your records")

\* C11: the items of a standard receipt are the expected lines of the fixed
\* order (logo, merchant name, address, phone with the Tel: prefix,
\* separator, title, blank line, amount, card type, PAN, RRN, reference,
\* timestamp, authorization code, STAN, separator, status title) followed by
\* closing lines only; there are exactly two separators and the reference
\* line is there.
C11_FixedRelativeOrder ==
    StandardReturned =>
        LET items == receipt.items
            lines == SelectSeq(FixedOrder, LinePresent)
        IN  /\ Len(items) > Len(lines)
            /\ \A i \in 1..Len(lines) : LineIs(lines[i], items[i])
            /\ \A i \in (Len(lines) + 1)..Len(items) : IsClosingLine(items[i])
            /\ Cardinality({i \in 1..Len(items) :
                               items[i].type = "separator"}) = 2
            /\ \E i \in 1..Len(items) : LineIs("reference", items[i])

C11_Witness ==
    /\ StandardReturned
    /\ \A line \in {"name", "address", "phone", "cardType", "cardPan", "rrn",
                    "dateTime", "authorizationCode", "stan"} :
          LinePresent(line)

HasLine(items, line) == \E i \in 1..Len(items) : LineIs(line, items[i])

HasText(items, text) == \E i \in 1..Len(items) : Shows(items[i], text)

\* C12: a standard receipt composed without a merchant argument has the
\* first separator right after the logo (no merchant name, address or phone
\* line) and still has the title, the amount, the reference, the status
\* title and the closing message.
C12_NoMerchantNoHeader ==
    (StandardReturned /\ merchant = Undefined) =>
        LET items == receipt.items
        IN  /\ items[1].type = "image"
            /\ items[2].type = "separator"
            /\ \A i \in 1..Len(items) :
                  items[i].type = "text" =>
                      items[i].text \notin {"Tel: undefined", "undefined", ""}
            /\ HasLine(items, "title")
            /\ HasLine(items, "amount")
            /\ HasLine(items, "reference")
            /\ HasLine(items, "status")
            /\ HasText(items, "Thank you for your business!")
            /\ HasText(items, "Keep this receipt for your records")

C12_Witness ==
    /\ StandardReturned
    /\ merchant = Undefined
    /\ Len(receipt.items) = 13

OptionalValues ==
    \* the nine optional fields, as the values handed to the composer
    [name              |-> Field(merchant, "name"),
     address           |-> Field(merchant, "address"),
     phone             |-> Field(merchant, "phone"),
     cardType          |-> paymentResult.cardType,
     cardPan           |-> paymentResult.cardPan,
     rrn               |-> paymentResult.rrn,
     dateTime          |-> paymentResult.dateTime,
     authorizationCode |-> paymentResult.authorizationCode,
     stan              |-> paymentResult.stan]

PopulatedFields == {f \in DOMAIN OptionalValues : Populated(OptionalValues[f])}

\* C13: the length of a standard receipt is the skeleton's 13 items plus one
\* item for each populated optional field; an empty or absent field adds
\* no item.
C13_LengthCountsPopulatedFields ==
    StandardReturned =>
        /\ Len(receipt.items) = 13 + Cardinality(PopulatedFields)
        /\ \A i \in 1..Len(receipt.items) :
              receipt.items[i].type = "text" =>
                  receipt.items[i].text \notin
                      {"", "Tel: ", "Card Type: ", "PAN: ", "RRN: ", "Date: ",
                       "Auth Code: ", "STAN: "}

C13_Witness ==
    /\ StandardReturned
    /\ PopulatedFields = {"address", "cardPan", "stan"}
    /\ OptionalValues.name = Str("")
    /\ OptionalValues.rrn = Str("")
    /\ OptionalValues.cardType = Undefined
    /\ Len(receipt.items) = 16

SecondSeparator(items) ==
    CHOOSE j \in 1..Len(items) :
        /\ items[j].type = "separator"
        /\ Cardinality({i \in 1..j : items[i].type = "separator"}) = 2

\* C14: the item right after the second separator of a standard receipt is
\* the status title, and its text is APPROVED when the result is successful
\* and DECLINED when it is not.
C14_StatusAfterSecondSeparator ==
    StandardReturned =>
        LET items == receipt.items
            j     == SecondSeparator(items)
        IN  /\ \E k \in 1..Len(items) :
                  /\ items[k].type = "separator"
                  /\ Cardinality({i \in 1..k :
                                     items[i].type = "separator"}) = 2
            /\ j < Len(items)
            /\ items[j + 1] = [type |-> "text",
                               text |-> IF paymentResult.isSuccessful
                                        THEN "APPROVED" ELSE "DECLINED",
                               isTitle |-> TRUE, displayCenter |-> TRUE,
                               isBold |-> TRUE]

C14_Witness ==
    /\ StandardReturned
    /\ ~paymentResult.isSuccessful
    /\ paymentResult.status = "completed"
    /\ HasText(receipt.items, "DECLINED")

AfterStatus(items) ==
    \* the items that follow the status title
    SubSeq(items, SecondSeparator(items) + 2, Len(items))

\* C15 (as stated): after the status title come exactly two blank lines, the
\* centered thank-you line and the centered reminder line, nothing else.
C15_TwoBlanksThenClosingLines ==
    StandardReturned =>
        AfterStatus(receipt.items) =
            <<[type |-> "newline"], [type |-> "newline"],
              [type |-> "text", text |-> "Thank you for your business!",
               displayCenter |-> TRUE],
              [type |-> "text", text |-> "Keep this receipt for your records",
               displayCenter |-> TRUE]>>

\* C15 (amended): after the status title come exactly two blank lines, the
\* centered thank-you line, one blank line and the centered reminder line,
\* nothing else.
C15_ClosingLinesWithBlankBetween ==
    StandardReturned =>
        AfterStatus(receipt.items) =
            <<[type |-> "newline"], [type |-> "newline"],
              [type |-> "text", text |-> "Thank you for your business!",
               displayCenter |-> TRUE],
              [type |-> "newline"],
              [type |-> "text", text |-> "Keep this receipt for your records",
               displayCenter |-> TRUE]>>

C15_Witness ==
    /\ StandardReturned
    /\ Len(AfterStatus(receipt.items)) = 5
    /\ paymentResult.isSuccessful

\* C16: the simple receipt has exactly seven items: title, separator,
\* amount, reference, status, separator, thank-you, whatever the result.
C16_SimpleReceiptSevenItems ==
    (receipt # NotCalled /\ receipt.kind = "simple") =>
        /\ receipt.t = "returned"
        /\ Len(receipt.items) = 7
        /\ Shows(receipt.items[1], "PAYMENT RECEIPT")
        /\ receipt.items[2].type = "separator"
        /\ (\/ Shows(receipt.items[3], "Amount: N1,234.50")
            \/ Shows(receipt.items[3], "Amount: NNaN"))
        /\ Shows(receipt.items[4], "Reference: REF-001")
        /\ Shows(receipt.items[5], IF paymentResult.isSuccessful
                                   THEN "Status: APPROVED"
                                   ELSE "Status: DECLINED")
        /\ receipt.items[6].type = "separator"
        /\ Shows(receipt.items[7], "Thank you!")

C16_Witness ==
    /\ SimpleReturned
    /\ paymentResult.amount = Undefined
    /\ PopulatedFields = {}
    /\ ~paymentResult.isSuccessful

\* C17: createStandardReceipt returns a receipt for every PaymentResult
\* (completed or cancelled, whatever data is absent) and every merchant
\* argument; it never throws.
C17_StandardReceiptNeverThrows ==
    (receipt # NotCalled /\ receipt.kind = "standard") =>
        receipt.t = "returned"

(***************************************************************************)
(* The outbound operations of the service.  Each one runs up to the await  *)
(* of the native call in one step (or returns at once when a check in its  *)
(* try block throws) and resumes when the native promise settles; a        *)
(* rejection carries the message of the native exception.                  *)
(***************************************************************************)
OutboundOperations ==
    {"initializeTerminal", "setCompanyLogo", "printReceipt", "showSettings",
     "callHome", "getTerminalInfo"}

Fallback(name) ==
    \* the string after `error.message ||` in the operation's catch block
    CASE name = "initializeTerminal" -> "Unknown error occurred"
      [] name = "setCompanyLogo"     -> "Unknown error occurred"
      [] name = "makePayment"        -> "Failed to initiate payment"
      [] name = "printReceipt"       -> "Failed to print receipt"
      [] name = "showSettings"       -> "Failed to open settings"
      [] name = "callHome"           -> "Failed to sync with server"
      [] OTHER                       -> "Failed to get terminal info"

Arguments(name) ==
    CASE name = "initializeTerminal" ->
            {Undefined, [t |-> "object", environment |-> "TEST",
                         appVersion |-> "1.0.0"]}
      [] name = "setCompanyLogo" ->
            {Undefined, [t |-> "object", type |-> "resource",
                         resourceName |-> "logo"]}
      [] name = "printReceipt" ->
            {Undefined,
             [t |-> "array", items |-> <<>>],
             [t |-> "array",
              items |-> <<TitleItem("PAYMENT RECEIPT"), SeparatorItem>>]}
      [] OTHER -> {Undefined}

NativeValues ==
    \* what a native promise resolves with
    {Undefined, Null,
     [t |-> "object", success |-> TRUE,  message |-> Str("OK")],
     [t |-> "object", success |-> FALSE, message |-> Str("Printer busy")],
     [t |-> "object", success |-> FALSE, message |-> Undefined]}

OperationOutcomes ==
    {[kind |-> "resolved", value |-> v, message |-> Undefined] :
        v \in NativeValues}
    \cup
    {[kind |-> "rejected", value |-> Undefined, message |-> m] :
        m \in {Undefined, Str(""), Str("Terminal not initialized")}}

TypeErrorOf(p, v) ==
    \* the message of the TypeError of reading property p of undefined/null
    Str("Cannot read property '" \o p \o "' of " \o Template(v))

operationCheck(name, arg) ==
    \* the message of the error thrown before the native call, or Undefined
    CASE name = "setCompanyLogo" ->
            IF arg = Undefined THEN TypeErrorOf("type", arg) ELSE Undefined
      [] name = "printReceipt" ->
            IF ~Truthy(arg) \/ Len(arg.items) = 0
            THEN Str("Print data is required") ELSE Undefined
      [] OTHER -> Undefined

Success(data, message) ==
    [success |-> TRUE, data |-> data, message |-> message, error |-> Undefined]

initializeTerminalSettled(o) ==
    IF o.kind = "rejected" THEN Failure(o.message, "Unknown error occurred")
    ELSE IF Truthy(o.value) /\ o.value.success
         THEN Success(Undefined, o.value.message)
    ELSE Failure(Undefined, "Terminal initialization failed")

setCompanyLogoSettled(o) ==
    IF o.kind = "rejected" THEN Failure(o.message, "Unknown error occurred")
    ELSE IF Truthy(o.value) /\ o.value.success
         THEN Success(Undefined, o.value.message)
    ELSE Failure(Undefined, "Failed to set company logo")

printReceiptSettled(o) ==
    IF o.kind = "rejected" THEN Failure(o.message, "Failed to print receipt")
    ELSE IF Truthy(o.value) /\ o.value.success
         THEN Success(o.value, Undefined)
    ELSE Failure(Prop(IF o.value = Null THEN Undefined ELSE o.value,
                      "message"),
                 "Print failed")

MessageOfResult_unguarded(o, fallback) ==
    \* the catch block without the fallback: { success: false, error:
    \* error.message }
    IF o.kind = "rejected"
    THEN [success |-> FALSE, data |-> Undefined, error |-> o.message]
    ELSE IF ~Truthy(o.value)
         THEN Failure(TypeErrorOf("message", o.value), fallback)
    ELSE Success(Undefined, o.value.message)

MessageOfResult(o, fallback) ==
    \* showSettings and callHome: result.message is read without a check,
    \* which throws a TypeError inside the try block for undefined or null
    IF o.kind = "rejected" THEN Failure(o.message, fallback)
    ELSE IF ~Truthy(o.value)
         THEN Failure(TypeErrorOf("message", o.value), fallback)
    ELSE Success(Undefined, o.value.message)

showSettingsSettled(o) == MessageOfResult(o, "Failed to open settings")

callHomeSettled(o) == MessageOfResult(o, "Failed to sync with server")

getTerminalInfoSettled(o) ==
    IF o.kind = "rejected"
    THEN Failure(o.message, "Failed to get terminal info")
    ELSE Success(o.value, Undefined)

operationSettled(name, o) ==
    CASE name = "initializeTerminal" -> initializeTerminalSettled(o)
      [] name = "setCompanyLogo"     -> setCompanyLogoSettled(o)
      [] name = "printReceipt"       -> printReceiptSettled(o)
      [] name = "showSettings"       -> showSettingsSettled(o)
      [] name = "callHome"           -> callHomeSettled(o)
      [] OTHER                       -> getTerminalInfoSettled(o)

OperationThrows(name, arg) ==
    \* a check of the try block throws: the catch block returns
    /\ opReturn # Pending
    /\ operationCheck(name, arg) # Undefined
    /\ operation' = [name |-> name, arg |-> arg,
                     outcome |-> [kind |-> "thrown", value |-> Undefined,
                                  message |-> operationCheck(name, arg)]]
    /\ opReturn' = Failure(operationCheck(name, arg), Fallback(name))
    /\ UNCHANGED <<valVars, refVars, formVars, lsnVars, payVars, rcptVars,
                   scrVars>>

OperationCallsNative(name, arg) ==
    \* the operation up to the await of the native call
    /\ opReturn # Pending
    /\ operationCheck(name, arg) = Undefined
    /\ operation' = [name |-> name, arg |-> arg, outcome |-> Undefined]
    /\ opReturn' = Pending
    /\ UNCHANGED <<valVars, refVars, formVars, lsnVars, payVars, rcptVars,
                   scrVars>>

OperationSettles(o) ==
    \* the native promise settles and the operation returns
    /\ opReturn = Pending
    /\ operation' = [operation EXCEPT !.outcome = o]
    /\ opReturn' = operationSettled(operation.name, o)
    /\ UNCHANGED <<valVars, refVars, formVars, lsnVars, payVars, rcptVars,
                   scrVars>>

OperationsInit ==
    /\ ValidateIdle /\ FormIdle /\ ListenersIdle /\ PaymentIdle /\ AppIdle

OperationsNext ==
    \/ \E name \in OutboundOperations : \E arg \in Arguments(name) :
          OperationThrows(name, arg) \/ OperationCallsNative(name, arg)
    \/ \E o \in OperationOutcomes : OperationSettles(o)
    \/ \E d \in PaymentDatas : MakePaymentThrows(d)
    \/ \E d \in PaymentDatas : \E timestamp \in 0..MaxClock :
          \E randomNum \in RandomNums :
             MakePaymentCallsNative(d, timestamp, randomNum)
    \/ \E o \in NativeOutcomes : MakePaymentSettles(o)

SpecOperations == OperationsInit /\ [][OperationsNext]_vars

HasReturned(r) == r # NotCalled /\ r # Pending

IsFailure(r) ==
    \* { success: false, error: <non-empty string> }
    /\ r.success = FALSE
    /\ r.error.t = "string"
    /\ r.error.s # ""

ExceptionThrown ==
    \* the latest outbound operation ended in its catch block
    \/ operation.outcome.kind \in {"rejected", "thrown"}
    \/ /\ operation.name \in {"showSettings", "callHome"}
       /\ operation.outcome.kind = "resolved"
       /\ operation.outcome.value \in {Undefined, Null}

\* C18: an outbound operation whose native call (or whose own check) threw
\* returns {success: false, error: <non-empty string>}, the error being the
\* message of the exception or the operation's fallback; every operation
\* that was called and has settled returned a value with a success flag.
C18_ExceptionsSurfaceAsFailure ==
    /\ HasReturned(opReturn) =>
          /\ opReturn.success \in BOOLEAN
          /\ ExceptionThrown =>
                /\ IsFailure(opReturn)
                /\ opReturn.error \in {operation.outcome.message,
                                       Str(Fallback(operation.name)),
                                       TypeErrorOf("message", Undefined),
                                       TypeErrorOf("message", Null)}
    /\ HasReturned(payReturn) =>
          /\ payReturn.success \in BOOLEAN
          /\ nativeCall.state \in {"none", "rejected"} =>
                /\ IsFailure(payReturn)
                /\ nativeCall.state = "rejected" =>
                      payReturn.error \in
                          {nativeCall.outcome.message,
                           Str(Fallback("makePayment"))}

C18_Witness ==
    /\ HasReturned(opReturn)
    /\ operation.name = "callHome"
    /\ operation.outcome.kind = "rejected"
    /\ operation.outcome.message = Str("")
    /\ opReturn.error = Str("Failed to sync with server")
    /\ HasReturned(payReturn)
    /\ nativeCall.state = "rejected"
    /\ payReturn.error = Str("Terminal not initialized")

(***************************************************************************)
(* The payment screen (payment.tsx).  An async function of the screen runs *)
(* up to its await of a service call in one step and resumes when the      *)
(* native promise behind that call settles.  The state of the component    *)
(* (terminalReady, loading) belongs to the mounted instance: a setter      *)
(* called by a continuation of an earlier instance changes nothing, and a  *)
(* new instance starts from useState(false).  Instances are numbered by    *)
(* the addEventListeners call of their mount.  A behaviour uses either     *)
(* this screen or the stand-alone one (part_001); formKind tells which.    *)
(***************************************************************************)
ScreenMerchant ==
    [name    |-> Str("Your Business Name"),
     address |-> Str("123 Business Street, Lagos"),
     phone   |-> Str("+234 123 456 7890")]

ScreenForms ==
    \* what the user typed when pressing the pay button
    {[customerName |-> n, customerEmail |-> "john.doe@example.com",
      customerMobile |-> "0812 345 6789",
      amount |-> Lit("decimal", FALSE, 50000, 0, 0, 0)] :
        n \in {"", "John Doe"}}

EmptyForm ==
    [customerName |-> "", customerEmail |-> "", customerMobile |-> "",
     amount |-> Other("empty")]

ScreenFormErrors ==
    [f \in ScreenForms |-> WithAmount(CommonErrors(f), AmountErrorTabs(f))]

StandaloneFormErrors ==
    [f \in ScreenForms |->
        WithAmount(CommonErrors(f), AmountErrorStandalone(f))]

NoErrors(e) == \A k \in DOMAIN e : e[k] = NoError

ApprovedResult ==
    [status |-> "completed", isSuccessful |-> TRUE,
     transactionReference |-> Str("REF-001"),
     amount |-> Eval(Lit("decimal", FALSE, 50000, 0, 0, 0)),
     cardType |-> Str("VISA"), cardPan |-> Str("506099******1234"),
     rrn |-> Str("000012345678"), dateTime |-> Str("2024-01-15 10:30:00"),
     authorizationCode |-> Str("A1B2C3"), stan |-> Str("000042")]

ScreenResults(e) ==
    \* the PaymentResult the terminal hands to the listener of event e
    IF e = "onPaymentCompleted"
    THEN {ApprovedResult,
          [ApprovedResult EXCEPT !.amount = Undefined],
          [ApprovedResult EXCEPT !.isSuccessful = FALSE,
                                 !.authorizationCode = Str("")]}
    ELSE {[ApprovedResult EXCEPT !.status = "cancelled",
                                 !.isSuccessful = FALSE,
                                 !.amount = Undefined,
                                 !.cardType = Undefined,
                                 !.cardPan = Undefined,
                                 !.rrn = Undefined,
                                 !.authorizationCode = Undefined,
                                 !.stan = Undefined]}

Effect(toast, failed, print, resetForm, resetLoading) ==
    \* what a listener of the screen does
    [toast |-> toast, failed |-> failed, print |-> print,
     resetForm |-> resetForm, resetLoading |-> resetLoading]

onPaymentCompleted_alwaysPrints(result) ==
    \* the receipt and the form reset also after a declined payment
    IF result.isSuccessful
    THEN Effect("success", FALSE, TRUE, TRUE, TRUE)
    ELSE Effect("error", TRUE, TRUE, TRUE, TRUE)

onPaymentCompleted(result) ==
    IF result.isSuccessful
    THEN Effect("success", FALSE, TRUE, TRUE, TRUE)
    ELSE Effect("error", TRUE, FALSE, FALSE, TRUE)

onPaymentCancelled_keepsLoading(result) ==
    \* the listener without its setLoading(false)
    Effect("info", FALSE, FALSE, FALSE, FALSE)

onPaymentCancelled(result) == Effect("info", FALSE, FALSE, FALSE, TRUE)

Call(op, instance) == [op |-> op, instance |-> instance]

Awaiting(op) == {x \in inFlight : x.op = op}

Attempt(op, failed, toast) == [op |-> op, failed |-> failed, toast |-> toast]

ScreenMount ==
    \* useEffect: initializeTerminal() up to its await, setupEventListeners()
    /\ ~mounted
    /\ formKind # "standalone"
    /\ registrations < MaxRegistrations
    /\ LET s == addEventListeners(Service, EventTypes, registrations + 1)
       IN  /\ listeners' = s.listeners
           /\ subscriptions' = s.subscriptions
           /\ removeCalls' = s.removeCalls
    /\ registrations' = registrations + 1
    /\ lastCall' = [op |-> "addEventListeners", cb |-> EventTypes]
    /\ mounted' = TRUE
    /\ inFlight' = inFlight \cup {Call("initializeTerminal", registrations + 1)}
    /\ UNCHANGED <<delivered, terminalReady, loading, attempt,
                   loadingStandalone, valVars, refVars, formVars, payVars,
                   rcptVars, opVars>>

ScreenUnmount_keepsListeners ==
    \* a cleanup that does not call removeEventListeners
    /\ mounted
    /\ lastCall' = [op |-> "none", cb |-> {}]
    /\ mounted' = FALSE
    /\ terminalReady' = FALSE
    /\ loading' = FALSE
    /\ UNCHANGED <<svcVars, registrations, delivered, attempt, inFlight,
                   loadingStandalone, valVars, refVars, formVars, payVars,
                   rcptVars, opVars>>

ScreenUnmount ==
    \* the cleanup of useEffect; the state of the instance is gone
    /\ mounted
    /\ LET s == removeEventListeners(Service)
       IN  /\ listeners' = s.listeners
           /\ subscriptions' = s.subscriptions
           /\ removeCalls' = s.removeCalls
    /\ lastCall' = [op |-> "removeEventListeners", cb |-> {}]
    /\ mounted' = FALSE
    /\ terminalReady' = FALSE
    /\ loading' = FALSE
    /\ UNCHANGED <<registrations, delivered, attempt, inFlight,
                   loadingStandalone, valVars, refVars, formVars, payVars,
                   rcptVars, opVars>>

ScreenTerminalInitialized_alwaysReady(x, o) ==
    \* setTerminalReady(true) whatever initializeTerminal returned
    /\ x \in Awaiting("initializeTerminal")
    /\ LET result == initializeTerminalSettled(o)
       IN  /\ terminalReady' =
                 IF mounted /\ x.instance = registrations
                 THEN TRUE ELSE terminalReady
           /\ attempt' = Attempt("initializeTerminal", ~result.success,
                                 IF result.success THEN "success" ELSE "error")
    /\ inFlight' = inFlight \ {x}
    /\ UNCHANGED <<mounted, loading, loadingStandalone, valVars, refVars,
                   formVars, lsnVars, payVars, rcptVars, opVars>>

ScreenTerminalInitialized(x, o) ==
    \* initializeTerminal of the screen after its await
    /\ x \in Awaiting("initializeTerminal")
    /\ LET result == initializeTerminalSettled(o)
       IN  /\ terminalReady' =
                 IF result.success /\ mounted /\ x.instance = registrations
                 THEN TRUE ELSE terminalReady
           /\ attempt' = Attempt("initializeTerminal", ~result.success,
                                 IF result.success THEN "success" ELSE "error")
    /\ inFlight' = inFlight \ {x}
    /\ UNCHANGED <<mounted, loading, loadingStandalone, valVars, refVars,
                   formVars, lsnVars, payVars, rcptVars, opVars>>

PayButtonEnabled_whileLoading ==
    \* disabled={!terminalReady}
    ~(~terminalReady)

PayButtonEnabled ==
    \* disabled={loading || !terminalReady}
    ~(loading \/ ~terminalReady)

ScreenHandlePayment(f, timestamp, randomNum) ==
    \* a press of the pay button: handlePayment up to the await inside
    \* makePayment
    /\ mounted /\ PayButtonEnabled
    /\ payReturn # Pending
    /\ formData' = f
    /\ formErrors' = ScreenFormErrors[f]
    /\ formKind' = "tabs"
    /\ IF ~NoErrors(ScreenFormErrors[f])
       THEN /\ timestamp = 0 /\ randomNum = 0
            /\ UNCHANGED <<payVars, scrVars>>
       ELSE IF ~terminalReady
       THEN /\ timestamp = 0 /\ randomNum = 0
            /\ attempt' = Attempt("handlePayment", TRUE, "error")
            /\ UNCHANGED <<payVars, mounted, terminalReady, loading, inFlight,
                           loadingStandalone>>
       ELSE LET d == [amount      |-> Number(f.amount),
                      paymentType |-> Str("Card"),
                      reference   |->
                          generateTransactionReference(timestamp, randomNum),
                      remark      |-> Str("Payment for " \o f.customerName)]
                check == makePaymentCheck(d)
            IN  /\ payments' = payments + 1
                /\ paymentData' = d
                /\ IF check # Undefined
                   THEN /\ nativeCall' = NoNativeCall
                        /\ payReturn' = Failure(check, Fallback("makePayment"))
                        /\ attempt' = Attempt("makePayment", TRUE, "error")
                        /\ UNCHANGED <<loading, inFlight>>
                   ELSE /\ nativeCall' = [state |-> "pending",
                                          info |-> paymentInfo(d, 0, 0),
                                          outcome |-> Undefined]
                        /\ payReturn' = Pending
                        /\ loading' = TRUE
                        /\ inFlight' =
                              inFlight \cup {Call("makePayment", registrations)}
                        /\ UNCHANGED attempt
                /\ UNCHANGED <<awaitingEvent, mounted, terminalReady,
                               loadingStandalone>>
    /\ UNCHANGED <<valVars, refVars, lsnVars, rcptVars, opVars>>

ScreenPaymentInitiated(x, o) ==
    \* the native promise settles, makePayment returns and handlePayment
    \* resumes
    /\ x \in Awaiting("makePayment")
    /\ payReturn = Pending
    /\ nativeCall' = [nativeCall EXCEPT !.state = o.kind, !.outcome = o]
    /\ payReturn' = makePaymentSettled(o)
    /\ awaitingEvent' = IF o.kind = "resolved" THEN awaitingEvent + 1
                        ELSE awaitingEvent
    /\ inFlight' = inFlight \ {x}
    /\ IF makePaymentSettled(o).success
       THEN UNCHANGED <<loading, attempt>>
       ELSE /\ loading' = IF mounted /\ x.instance = registrations
                          THEN FALSE ELSE loading
            /\ attempt' = Attempt("makePayment", TRUE, "error")
    /\ UNCHANGED <<payments, paymentData, mounted, terminalReady,
                   loadingStandalone, valVars, refVars, formVars, lsnVars,
                   rcptVars, opVars>>

Handlers(e) == {x \in subscriptions : x.event = e}

ScreenPaymentEvent(e, p) ==
    \* the terminal reports the outcome of a payment it had started; the
    \* listener the screen registered for e runs, printReceipt included up
    \* to its await
    /\ awaitingEvent > 0
    /\ awaitingEvent' = awaitingEvent - 1
    /\ delivered' = [event |-> e, payload |-> p, handlers |-> Handlers(e),
                     after |-> lastCall, regs |-> registrations]
    /\ IF Handlers(e) = {}
       THEN UNCHANGED <<formVars, rcptVars, scrVars>>
       ELSE LET effect   == IF e = "onPaymentCompleted"
                            THEN onPaymentCompleted(p)
                            ELSE onPaymentCancelled(p)
                composed == createStandardReceipt(p, ScreenMerchant)
                printing == effect.print /\ composed.t = "returned"
            IN  /\ loading' = IF effect.resetLoading THEN FALSE ELSE loading
                /\ formData' = IF effect.resetForm THEN EmptyForm
                               ELSE formData
                /\ IF effect.print
                   THEN /\ paymentResult' = p
                        /\ merchant' = ScreenMerchant
                        /\ receipt' = composed
                   ELSE UNCHANGED rcptVars
                /\ inFlight' =
                      IF printing
                      THEN inFlight \cup {Call("printReceipt", registrations)}
                      ELSE inFlight
                /\ attempt' =
                      IF effect.print /\ ~printing
                      THEN Attempt("printReceipt", TRUE, "none")
                      ELSE Attempt("payment", effect.failed, effect.toast)
                /\ UNCHANGED <<formErrors, formKind, mounted, terminalReady,
                               loadingStandalone>>
    /\ UNCHANGED <<svcVars, registrations, lastCall, payments, paymentData,
                   nativeCall, payReturn, valVars, refVars, opVars>>

PrintEvents(result) ==
    \* the print event the native module may emit along with the result
    IF result.success THEN {"none", "onPrintCompleted"}
    ELSE {"none", "onPrintError"}

ScreenReceiptPrinted(x, o, e) ==
    \* the native print call settles; printReceipt of the screen resumes and
    \* drops the value the service returned
    /\ x \in Awaiting("printReceipt")
    /\ e \in PrintEvents(printReceiptSettled(o))
    /\ inFlight' = inFlight \ {x}
    /\ delivered' =
          IF e = "none" THEN delivered
          ELSE [event |-> e, payload |-> CHOOSE p \in Payloads(e) : TRUE,
                handlers |-> Handlers(e), after |-> lastCall,
                regs |-> registrations]
    /\ attempt' =
          Attempt("printReceipt", ~printReceiptSettled(o).success,
                  IF e = "none" \/ Handlers(e) = {} THEN "none"
                  ELSE IF e = "onPrintCompleted" THEN "success" ELSE "error")
    /\ UNCHANGED <<svcVars, registrations, lastCall, mounted, terminalReady,
                   loading, loadingStandalone, valVars, refVars, formVars,
                   payVars, rcptVars, opVars>>

ScreenPress(op) ==
    \* a press of the Settings or the Sync button: showSettings or callHome
    \* of the screen up to its await
    /\ mounted
    /\ Awaiting(op) = {}
    /\ inFlight' = inFlight \cup {Call(op, registrations)}
    /\ UNCHANGED <<mounted, terminalReady, loading, attempt,
                   loadingStandalone, valVars, refVars, formVars, lsnVars,
                   payVars, rcptVars, opVars>>

ScreenSettingsShown(x, o) ==
    \* showSettings of the screen resumes and drops the value returned
    /\ x \in Awaiting("showSettings")
    /\ inFlight' = inFlight \ {x}
    /\ attempt' = Attempt("showSettings", ~showSettingsSettled(o).success,
                          "none")
    /\ UNCHANGED <<mounted, terminalReady, loading, loadingStandalone,
                   valVars, refVars, formVars, lsnVars, payVars, rcptVars,
                   opVars>>

ScreenHomeCalled(x, o) ==
    \* callHome of the screen resumes: a toast if (result.success) only
    /\ x \in Awaiting("callHome")
    /\ inFlight' = inFlight \ {x}
    /\ attempt' = Attempt("callHome", ~callHomeSettled(o).success,
                          IF callHomeSettled(o).success THEN "success"
                          ELSE "none")
    /\ UNCHANGED <<mounted, terminalReady, loading, loadingStandalone,
                   valVars, refVars, formVars, lsnVars, payVars, rcptVars,
                   opVars>>

StandaloneHandlePayment(f) ==
    \* handlePayment of the stand-alone screen up to its await of the timer
    /\ ~loadingStandalone
    /\ formKind # "tabs"
    /\ registrations = 0
    /\ formData' = f
    /\ formErrors' = StandaloneFormErrors[f]
    /\ formKind' = "standalone"
    /\ loadingStandalone' = NoErrors(StandaloneFormErrors[f])
    /\ UNCHANGED <<mounted, terminalReady, loading, attempt, inFlight,
                   valVars, refVars, lsnVars, payVars, rcptVars, opVars>>

StandaloneTimeout ==
    \* the timer fires: success toast, form reset, finally setLoading(false)
    /\ loadingStandalone
    /\ formData' = EmptyForm
    /\ attempt' = Attempt("simulatedPayment", FALSE, "success")
    /\ loadingStandalone' = FALSE
    /\ UNCHANGED <<formErrors, formKind, mounted, terminalReady, loading,
                   inFlight, valVars, refVars, lsnVars, payVars, rcptVars,
                   opVars>>

ScreenInit ==
    ValidateIdle /\ FormIdle /\ ListenersIdle /\ PaymentIdle /\ AppIdle

ScreenOutcomes ==
    \* what the native promises behind the screen's calls settle with
    {o \in OperationOutcomes :
        \/ o.kind = "resolved" /\ o.value # Null
        \/ o.kind = "rejected" /\ o.message # Undefined}

TerminalInitialized ==
    \E x \in inFlight : \E o \in ScreenOutcomes :
        ScreenTerminalInitialized(x, o)

ScreenPaymentOutcomes ==
    \* what the native promise of the screen's makePayment settles with
    {o \in NativeOutcomes :
        \/ o.kind = "resolved" /\ o.value = Undefined
        \/ o.kind = "rejected" /\ o.message # Undefined}

PressPay ==
    \* Date.now() and Math.random() at their least and at their greatest
    \E f \in ScreenForms : \E k \in {0, 1} :
        ScreenHandlePayment(f, k * MaxClock, k * 999999)

HandlePayment == payments < MaxPayments /\ PressPay

PaymentSettles ==
    \E x \in inFlight : \E o \in ScreenPaymentOutcomes :
        ScreenPaymentInitiated(x, o)

PaymentReported ==
    \E e \in {"onPaymentCompleted", "onPaymentCancelled"} :
        \E p \in ScreenResults(e) : ScreenPaymentEvent(e, p)

ReceiptPrinted ==
    \E x \in inFlight : \E o \in ScreenOutcomes :
        \E e \in {"none", "onPrintCompleted", "onPrintError"} :
            ScreenReceiptPrinted(x, o, e)

\* the operations of the screen while it stays mounted (a tab screen is
\* mounted once and kept)
ScreenNext ==
    \/ ScreenMount /\ registrations = 0
    \/ TerminalInitialized
    \/ HandlePayment
    \/ PaymentSettles
    \/ PaymentReported
    \/ ReceiptPrinted
    \/ \E op \in {"showSettings", "callHome"} : ScreenPress(op)
    \/ \E x \in inFlight : \E o \in ScreenOutcomes : ScreenSettingsShown(x, o)
    \/ \E x \in inFlight : \E o \in ScreenOutcomes : ScreenHomeCalled(x, o)

SpecScreen == ScreenInit /\ [][ScreenNext]_vars

\* C19: every failed outcome of an operation the payment screen started
\* (terminal initialization, payment initiation, a declined payment,
\* receipt printing, showSettings, callHome) is shown to the user as an
\* error notification.
C19_FailuresReported ==
    attempt.failed => attempt.toast = "error"

(***************************************************************************)
(* The payment flow of the two screens, with the scheduling it relies on:  *)
(* the native promise of makePayment settles, the terminal reports every   *)
(* payment it started, and the timer of the stand-alone screen fires.      *)
(***************************************************************************)
LoadingNext ==
    \/ ScreenMount
    \/ ScreenUnmount
    \/ TerminalInitialized
    \/ HandlePayment
    \/ PaymentSettles
    \/ PaymentReported
    \/ ReceiptPrinted
    \/ \E f \in ScreenForms : StandaloneHandlePayment(f)
    \/ StandaloneTimeout

SpecLoading ==
    /\ ScreenInit
    /\ [][LoadingNext]_vars
    /\ WF_vars(PaymentSettles)
    /\ WF_vars(PaymentReported)
    /\ WF_vars(StandaloneTimeout)

\* C20: a payment attempt that has set the loading flag is followed by a
\* state in which the flag is false again, on both payment screens.
C20_LoadingEventuallyReset ==
    /\ loading ~> ~loading
    /\ loadingStandalone ~> ~loadingStandalone

C20_Witness ==
    /\ mounted
    /\ payments > 0
    /\ HasReturned(payReturn)
    /\ payReturn.success
    /\ delivered.event = "onPaymentCancelled"
    /\ delivered.handlers # {}
    /\ ~loading

(***************************************************************************)
(* Specification of the reference generators: the service's                *)
(* generateTransactionReference and the copy in the stand-alone screen     *)
(* run the same three statements; the clock advances between calls or      *)
(* does not.                                                               *)
(***************************************************************************)
Reference(copy, timestamp, randomNum) ==
    [copy |-> copy, timestamp |-> timestamp, randomNum |-> randomNum,
     reference |-> generateTransactionReference(timestamp, randomNum)]

GenerateTransactionReference(copy, x) ==
    /\ Len(generated) < MaxReferences
    /\ LET timestamp == clock                 \* Date.now()
           randomNum == randomNumber(x)
       IN  generated' = Append(generated, Reference(copy, timestamp, randomNum))
    /\ UNCHANGED <<clock, valVars, formVars, lsnVars, payVars, rcptVars,
                   opVars, scrVars>>

ClockTick ==
    \* a millisecond passes
    /\ clock < MaxClock
    /\ clock' = clock + 1
    /\ UNCHANGED <<generated, valVars, formVars, lsnVars, payVars, rcptVars,
                   opVars, scrVars>>

ReferenceInit ==
    ValidateIdle /\ FormIdle /\ ListenersIdle /\ PaymentIdle /\ AppIdle

ReferenceNext ==
    \/ ClockTick
    \/ \E copy \in {"service", "form"} : \E x \in MathRandoms :
          GenerateTransactionReference(copy, x)

SpecReference == ReferenceInit /\ [][ReferenceNext]_vars

\* C21: every reference generated by generateTransactionReference (the
\* service's and the form's copy) is TXN_<t>_<r>, where t is the time in
\* milliseconds at the moment of the call and r is an integer with
\* 0 <= r <= 999999.
C21_ReferenceForm ==
    /\ [](\A i \in 1..Len(generated) :
            LET g == generated[i]
            IN  /\ g.randomNum \in 0..999999
                /\ g.timestamp \in 0..clock
                /\ g.reference = Str("TXN_" \o ToString(g.timestamp) \o "_"
                                         \o ToString(g.randomNum)))
    /\ [][generated' # generated
            => generated'[Len(generated')].timestamp = clock]_vars

C21_Witness ==
    /\ Len(generated) = 2
    /\ generated[1].copy = "service"
    /\ generated[1].reference = Str("TXN_0_999999")
    /\ generated[2].copy = "form"
    /\ generated[2].reference = Str("TXN_1_0")

\* C22: any two references the service's generateTransactionReference
\* returns are different, also when both are generated within the same
\* millisecond.
C22_ReferencesUnique ==
    \A i, j \in 1..Len(generated) :
        (/\ i # j
         /\ generated[i].copy = "service"
         /\ generated[j].copy = "service")
            => generated[i].reference # generated[j].reference

(***************************************************************************)
(* Specification of payment initiation: makePayment called with payment    *)
(* data of every kind, nothing else running.                               *)
(***************************************************************************)
InitiationInit ==
    ValidateIdle /\ FormIdle /\ ListenersIdle /\ PaymentIdle /\ AppIdle

InitiationNext ==
    \/ \E d \in InitiationDatas : MakePaymentThrows(d)
    \/ \E d \in InitiationDatas : \E timestamp \in 0..MaxClock :
          \E randomNum \in RandomNums :
             MakePaymentCallsNative(d, timestamp, randomNum)
    \/ \E o \in NativeOutcomes : MakePaymentSettles(o)

SpecInitiation == InitiationInit /\ [][InitiationNext]_vars

Rejected(a) == ~validatePaymentAmount(a).valid

\* C23: makePayment never invokes the native makePayment with an amount
\* that validatePaymentAmount rejects; for such an amount it returns
\* {success: false, error} and the native module is not called.
C23_ValidatorGatesPayment ==
    /\ nativeCall.state # "none" => ~Rejected(nativeCall.info.amount)
    /\ (payments > 0 /\ Rejected(paymentData.amount))
          => /\ nativeCall = NoNativeCall
             /\ HasReturned(payReturn)
             /\ ~payReturn.success
             /\ payReturn.error.t = "string"
             /\ payReturn.error.s # ""

C23_Witness ==
    /\ payments > 0
    /\ paymentData.amount = Eval(Lit("decimal", FALSE, 999, 0, 0, 0))
    /\ nativeCall = NoNativeCall
    /\ payReturn = Failure(Str(ErrMinimum), "Failed to initiate payment")

GeneratedReferences ==
    {generateTransactionReference(timestamp, randomNum) :
        timestamp \in 0..MaxClock, randomNum \in RandomNums}

Forwarded(given, sent, default) ==
    \* sent is what was given, or a default when nothing was given
    IF given # Undefined THEN sent = given ELSE sent \in default

ForwardedUnlessEmpty(given, sent, default) ==
    \* sent is what was given, or a default when nothing or the empty
    \* string was given
    IF given \notin {Undefined, Str("")} THEN sent = given
    ELSE sent \in default

\* C24 (as stated): the native module gets the caller's reference,
\* paymentType and remark unchanged whenever the caller supplied one, a
\* generated TXN_ reference, 'Card' and 'Payment transaction' only when
\* the field is absent, and the amount unchanged.
C24_DefaultsOnlyWhenAbsent ==
    nativeCall.state # "none" =>
        /\ nativeCall.info.amount = paymentData.amount
        /\ Forwarded(paymentData.reference, nativeCall.info.reference,
                     GeneratedReferences)
        /\ Forwarded(paymentData.paymentType, nativeCall.info.paymentType,
                     {Str("Card")})
        /\ Forwarded(paymentData.remark, nativeCall.info.remark,
                     {Str("Payment transaction")})

\* C24 (amended): the native module gets the caller's reference,
\* paymentType and remark unchanged whenever the caller supplied a
\* non-empty one, a generated TXN_ reference, 'Card' and 'Payment
\* transaction' only when the field is absent or the empty string, and the
\* amount unchanged.
C24_DefaultsOnlyWhenAbsentOrEmpty ==
    nativeCall.state # "none" =>
        /\ nativeCall.info.amount = paymentData.amount
        /\ ForwardedUnlessEmpty(paymentData.reference,
                                nativeCall.info.reference, GeneratedReferences)
        /\ ForwardedUnlessEmpty(paymentData.paymentType,
                                nativeCall.info.paymentType, {Str("Card")})
        /\ ForwardedUnlessEmpty(paymentData.remark, nativeCall.info.remark,
                                {Str("Payment transaction")})

C24_Witness ==
    /\ nativeCall.state = "resolved"
    /\ paymentData.reference = Str("REF-001")
    /\ nativeCall.info.reference = Str("REF-001")
    /\ paymentData.paymentType = Str("")
    /\ nativeCall.info.paymentType = Str("Card")
    /\ paymentData.remark = Undefined
    /\ nativeCall.info.remark = Str("Payment transaction")

(***************************************************************************)
(* Specification of the payment screen's life: it is mounted, unmounted    *)
(* and mounted again, and the pay button is pressed as often as it is      *)
(* enabled.                                                                *)
(***************************************************************************)
LifecycleNext ==
    \/ ScreenMount
    \/ ScreenUnmount
    \/ TerminalInitialized
    \/ payments < MaxPresses /\ PressPay
    \/ PaymentSettles
    \/ PaymentReported
    \/ ReceiptPrinted

SpecLifecycle == ScreenInit /\ [][LifecycleNext]_vars

InitiatesPayment ==
    \* this step invokes the native makePayment
    payments' = payments + 1 /\ nativeCall'.state = "pending"

InitializationSucceeds ==
    \* this step is the mounted instance's initializeTerminal returning
    \* success
    /\ mounted
    /\ \E x \in Awaiting("initializeTerminal") :
          x.instance = registrations /\ x \notin inFlight'
    /\ attempt' = Attempt("initializeTerminal", FALSE, "success")

\* C25: the payment screen invokes makePayment only while terminalReady is
\* true, and terminalReady becomes true only when initializeTerminal has
\* returned success to the mounted screen; while the initialization is
\* pending or has failed no payment is initiated.
C25_PaymentsNeedReadyTerminal ==
    /\ [][payments' # payments => terminalReady]_vars
    /\ [][(~terminalReady /\ terminalReady') => InitializationSucceeds]_vars

C25_Witness ==
    /\ mounted
    /\ registrations = 2
    /\ terminalReady
    /\ payments = 1
    /\ nativeCall.state = "pending"

PaymentsInFlight ==
    \* payments handed to the terminal that neither failed nor were
    \* reported by an event
    (IF payReturn = Pending THEN 1 ELSE 0) + awaitingEvent

PaymentEventStep ==
    \* this step is the terminal reporting a payment
    awaitingEvent' = awaitingEvent - 1

PrintsReceipt ==
    \* this step calls printReceipt of the screen
    \/ receipt' # receipt
    \/ Cardinality({x \in inFlight' : x.op = "printReceipt"})
          > Cardinality(Awaiting("printReceipt"))

ClearsForm == formData' = EmptyForm /\ formData # EmptyForm

\* C27: the payment screen prints a receipt and clears the form only when
\* its onPaymentCompleted listener runs with a result whose isSuccessful
\* is true; a declined result, a cancellation and a failed initiation
\* leave the form as typed and call printReceipt zero times.
C27_ReceiptAndResetOnlyOnSuccess ==
    [][(PrintsReceipt \/ ClearsForm)
          => /\ PaymentEventStep
             /\ delivered'.event = "onPaymentCompleted"
             /\ delivered'.handlers # {}
             /\ delivered'.payload.isSuccessful]_vars

C27_Witness ==
    /\ delivered.event = "onPaymentCompleted"
    /\ delivered.handlers # {}
    /\ ~delivered.payload.isSuccessful
    /\ formData \in ScreenForms
    /\ receipt = NotCalled
    /\ Awaiting("printReceipt") = {}
    /\ ~loading

\* C29: after the payment screen has unmounted all four listener slots of
\* the service are null, and an event the terminal emits later (the
\* outcome of a payment in flight at the unmount included) runs none of
\* the screen's listeners.
C29_NoCallbackAfterUnmount ==
    /\ [](~mounted
            => /\ \A e \in EventTypes : listeners[e] = Null
               /\ subscriptions = {})
    /\ [][(~mounted /\ PaymentEventStep)
            => /\ delivered'.handlers = {}
               /\ UNCHANGED <<formVars, rcptVars, scrVars>>]_vars

C29_Witness ==
    /\ ~mounted
    /\ registrations > 0
    /\ payments > 0
    /\ HasReturned(payReturn)
    /\ payReturn.success
    /\ delivered.event = "onPaymentCompleted"
    /\ delivered.handlers = {}
    /\ delivered.after.op = "removeEventListeners"
    /\ formData \in ScreenForms

\* C28: the listener slots of the singleton service are shared by all its
\* consumers: removeEventListeners tears down all four slots whoever
\* registered them, so after 'A registers, B registers, A tears down' B
\* has no active listener and no later event reaches a handler of B.
C28_TeardownRemovesEveryConsumersListeners ==
    /\ (lastCall.op = "removeEventListeners")
          => /\ subscriptions = {}
             /\ \A e \in EventTypes : listeners[e] = Null
    /\ (delivered.after.op = "removeEventListeners")
          => delivered.handlers = {}

C28_Witness ==
    /\ registrations = 2
    /\ lastCall.op = "removeEventListeners"
    /\ delivered.after.op = "removeEventListeners"
    /\ delivered.regs = 2
    /\ delivered.event = "onPrintCompleted"
    /\ delivered.handlers = {}
    /\ Subscription("onPrintCompleted", 1) \in DOMAIN removeCalls
    /\ Subscription("onPrintCompleted", 2) \in DOMAIN removeCalls
    /\ removeCalls[Subscription("onPrintCompleted", 2)] = 1

NativeSucceeded(o) ==
    \* the native call resolved with a truthy success field
    o.kind = "resolved" /\ Truthy(o.value) /\ o.value.success

Mirrors(names) ==
    \* the operations in names return the success flag the native result
    \* carries, and an error string with success: false
    (/\ operation.name \in names
     /\ HasReturned(opReturn)
     /\ operation.outcome # Undefined
     /\ operation.outcome.kind = "resolved")
        => /\ opReturn.success = NativeSucceeded(operation.outcome)
           /\ ~opReturn.success => opReturn.error.t = "string"

\* C30: initializeTerminal, setCompanyLogo, printReceipt, showSettings and
\* callHome return success: true only when the native call resolved with a
\* truthy success field, and success: false with an error string when it
\* resolved with success false or absent.
C30_SuccessFlagMirrorsNative ==
    Mirrors({"initializeTerminal", "setCompanyLogo", "printReceipt",
             "showSettings", "callHome"})

====
